---- MODULE Spec2Model ----
(***************************************************************************)
(* Model of the Config module (src/unnamed/part_001): the SSM-backed       *)
(* parameter/secret store (parameters, env, setSecret) and the restart     *)
(* fan-out over the deployment metadata (restart, restartFunction).        *)
(*                                                                         *)
(* Strings are sequences of tokens: "/", "-" and "_" are tokens of their   *)
(* own, every other token is an atomic word.  Concatenation, split, join,  *)
(* startsWith and replace work on the token sequences.                     *)
(***************************************************************************)
EXTENDS Integers, Sequences, FiniteSets, TLC

VARIABLES
    store,        \* SSM: parameter name -> [Value, Tier] or NoParam
    pc,           \* position of the one Config call in progress
    input,        \* argument of the setSecret call in progress
    ssmCalls,     \* SSM commands sent by the call in progress and their answers
    events,       \* events published on `${iot.prefix}/events` by the call
    err,          \* error the call rejected with, or NoError
    listed,       \* array Config.parameters() resolved with
    envOut,       \* object Config.env() resolved with
    metadata,     \* Stacks.metadata() flattened: sequence of constructs
    keys,         \* argument of the restart call in progress
    rpc,          \* position of the restart call
    siteTasks,    \* per regional site: state of its restartFunction promise
    fnTasks,      \* per function without prefetch: state of its promise
    lambdaCalls,  \* Lambda commands sent by the restart call, in order
    report,       \* object restart resolved with
    restartErr,   \* error restart rejected with, or NoError
    secretsOut,   \* object Config.secrets() resolved with
    secretOut,    \* what Config.getSecret() resolved with (<<>>: undefined)
    fnEnv,        \* Lambda: Environment.Variables of the one function
    clock,        \* what Date.now() returns
    rfTasks,      \* per caller: state of its restartFunction(arn) call
    rfLog,        \* Lambda commands sent by the callers and their answers
    scanPc,       \* position of the scanParameters generator
    token,        \* scanParameters: `token`
    requests,     \* NextToken sent with each GetParametersByPath, in order
    pages,        \* results of each GetParametersByPath, in order
    yielded,      \* records the generator has yielded, in order
    pureInput,    \* {type, id, prop} given to pathFor / normalizeID
    pathOut,      \* pathFor results per fallback flag, call by call
    normOut,      \* normalizeID applied once, twice, ...
    parseOut,     \* parse(pathFor(input), prefix) per fallback flag
    realIssuer,   \* google.js: `realIssuer`
    accesses,     \* per accessor: state of its property access on the proxy
    discoverCalls, \* Issuer.discover calls made, in order
    dpc,          \* position of the Deployments.deployStack call
    options,      \* argument of the deployStack call
    deploySteps,  \* collaborators called by deployStack, in order
    deployErr,    \* error deployStack rejected with, or NoError
    sdkCache,     \* Deployments.sdkCache: cache key -> SDK
    sdkCalls,     \* per caller: state of its cachedSdkForEnvironment call
    providerCalls, \* sdkProvider.forEnvironment calls made, in order
    functions,    \* KinesisStream.functions: consumer name -> function
    bindingForAllConsumers,             \* KinesisStream field
    permissionsAttachedForAllConsumers, \* KinesisStream field
    streamCalls,  \* calls made on the KinesisStream and how they ended
    routes,       \* usePothosBuilder: `routes`
    first,        \* usePothosBuilder: `first`
    builds,       \* build(route) calls made, in order, with what triggered them
    busEvents     \* events delivered to the subscribers, in order

storeVars == <<store, pc, input, ssmCalls, events, err, listed, envOut, secretsOut, secretOut>>
restartVars == <<metadata, keys, rpc, siteTasks, fnTasks, lambdaCalls, report, restartErr>>
fnVars == <<fnEnv, clock, rfTasks, rfLog>>
scanVars == <<scanPc, token, requests, pages, yielded>>
pureVars == <<pureInput, pathOut, normOut, parseOut>>
issuerVars == <<realIssuer, accesses, discoverCalls>>
deployVars == <<dpc, options, deploySteps, deployErr>>
sdkVars == <<sdkCache, sdkCalls, providerCalls>>
streamVars == <<functions, bindingForAllConsumers, permissionsAttachedForAllConsumers,
                streamCalls>>
pothosVars == <<routes, first, builds, busEvents>>
vars == <<store, pc, input, ssmCalls, events, err, listed, envOut, secretsOut, secretOut,
          metadata, keys, rpc, siteTasks, fnTasks, lambdaCalls, report, restartErr,
          fnEnv, clock, rfTasks, rfLog,
          scanPc, token, requests, pages, yielded,
          pureInput, pathOut, normOut, parseOut,
          realIssuer, accesses, discoverCalls,
          dpc, options, deploySteps, deployErr,
          sdkCache, sdkCalls, providerCalls,
          functions, bindingForAllConsumers, permissionsAttachedForAllConsumers, streamCalls,
          routes, first, builds, busEvents>>

\* What the actions of one part leave alone.
otherThanStore ==
    <<restartVars, fnVars, scanVars, pureVars, issuerVars,
      deployVars, sdkVars, streamVars, pothosVars>>
otherThanRestart ==
    <<storeVars, fnVars, scanVars, pureVars, issuerVars,
      deployVars, sdkVars, streamVars, pothosVars>>
otherThanFn ==
    <<storeVars, restartVars, scanVars, pureVars, issuerVars,
      deployVars, sdkVars, streamVars, pothosVars>>
otherThanScan ==
    <<storeVars, restartVars, fnVars, pureVars, issuerVars,
      deployVars, sdkVars, streamVars, pothosVars>>
otherThanPure ==
    <<storeVars, restartVars, fnVars, scanVars, issuerVars,
      deployVars, sdkVars, streamVars, pothosVars>>
otherThanIssuer ==
    <<storeVars, restartVars, fnVars, scanVars, pureVars,
      deployVars, sdkVars, streamVars, pothosVars>>
otherThanDeploy ==
    <<storeVars, restartVars, fnVars, scanVars, pureVars,
      issuerVars, sdkVars, streamVars, pothosVars>>
otherThanSdk ==
    <<storeVars, restartVars, fnVars, scanVars, pureVars,
      issuerVars, deployVars, streamVars, pothosVars>>
otherThanStream ==
    <<storeVars, restartVars, fnVars, scanVars, pureVars,
      issuerVars, deployVars, sdkVars, pothosVars>>
otherThanPothos ==
    <<storeVars, restartVars, fnVars, scanVars, pureVars,
      issuerVars, deployVars, sdkVars, streamVars>>

\* The parts a specification does not exercise stay as constructed.
InitFnIdle ==
    /\ fnEnv = <<>>
    /\ clock = 0
    /\ rfTasks = <<>>
    /\ rfLog = <<>>

InitScanIdle ==
    /\ scanPc = "idle"
    /\ token = <<>>
    /\ requests = <<>>
    /\ pages = <<>>
    /\ yielded = <<>>

InitPureIdle ==
    /\ pureInput = <<>>
    /\ pathOut = <<>>
    /\ normOut = <<>>
    /\ parseOut = <<>>

InitIssuerIdle ==
    /\ realIssuer = <<>>
    /\ accesses = <<>>
    /\ discoverCalls = <<>>

InitDeployIdle ==
    /\ dpc = "idle"
    /\ options = <<>>
    /\ deploySteps = <<>>
    /\ deployErr = <<>>

InitSdkIdle ==
    /\ sdkCache = <<>>
    /\ sdkCalls = <<>>
    /\ providerCalls = <<>>

InitStreamIdle ==
    /\ functions = <<>>
    /\ bindingForAllConsumers = <<>>
    /\ permissionsAttachedForAllConsumers = <<>>
    /\ streamCalls = <<>>

InitPothosIdle ==
    /\ routes = <<>>
    /\ first = FALSE
    /\ builds = <<>>
    /\ busEvents = <<>>

\* The parts added to the Config module's own: all as constructed.
InitElsewhereIdle ==
    InitIssuerIdle /\ InitDeployIdle /\ InitSdkIdle /\ InitStreamIdle /\ InitPothosIdle

undefined == <<"undefined">>

(***************************************************************************)
(* String helpers (JavaScript String methods on token sequences).          *)
(***************************************************************************)
startsWith(s, p) == Len(s) >= Len(p) /\ SubSeq(s, 1, Len(p)) = p

substring(s, n) == SubSeq(s, n + 1, Len(s))

RECURSIVE split(_, _)
split(s, sep) ==
    IF \A i \in 1..Len(s) : s[i] # sep
    THEN <<s>>
    ELSE LET i == CHOOSE j \in 1..Len(s) :
                      s[j] = sep /\ \A k \in 1..(j - 1) : s[k] # sep
         IN  <<SubSeq(s, 1, i - 1)>> \o split(SubSeq(s, i + 1, Len(s)), sep)

RECURSIVE join(_, _)
join(parts, sep) ==
    IF Len(parts) = 0 THEN <<>>
    ELSE IF Len(parts) = 1 THEN parts[1]
    ELSE parts[1] \o <<sep>> \o join(Tail(parts), sep)

slice(parts, n) == SubSeq(parts, n + 1, Len(parts))

(***************************************************************************)
(* Project configuration and Config.PREFIX.                                *)
(***************************************************************************)
FALLBACK_STAGE == ".fallback"
AppName == "app"
StageName == "dev"

PREFIX_STAGE == <<"/", "sst", "/", AppName, "/", StageName, "/">>
PREFIX_FALLBACK == <<"/", "sst", "/", AppName, "/", FALLBACK_STAGE, "/">>

\* Mutant: replace without the g flag, only the first dash is replaced.
normalizeIDFirstOnly(id) ==
    [i \in 1..Len(id) |->
        IF id[i] = "-" /\ \A j \in 1..(i - 1) : id[j] # "-" THEN "_" ELSE id[i]]

normalizeID(id) == [i \in 1..Len(id) |-> IF id[i] = "-" THEN "_" ELSE id[i]]

envFor(p) == <<"SST", "_">> \o p.type \o <<"_">> \o p.prop \o <<"_">> \o normalizeID(p.id)

\* Mutant: the id is normalized for the stage path only.
pathForRawFallbackId(p) ==
    IF p.fallback
    THEN PREFIX_FALLBACK \o p.type \o <<"/">> \o p.id \o <<"/">> \o p.prop
    ELSE PREFIX_STAGE \o p.type \o <<"/">> \o normalizeID(p.id) \o <<"/">> \o p.prop

pathFor(p) ==
    (IF p.fallback THEN PREFIX_FALLBACK ELSE PREFIX_STAGE)
        \o p.type \o <<"/">> \o normalizeID(p.id) \o <<"/">> \o p.prop

\* Mutant: the prop is the third part alone, not the joined remainder.
parseThirdPartOnly(ssmName, prefix) ==
    LET parts == split(substring(ssmName, Len(prefix)), "/")
    IN  [type |-> IF Len(parts) >= 1 THEN parts[1] ELSE undefined,
         id   |-> IF Len(parts) >= 2 THEN parts[2] ELSE undefined,
         prop |-> IF Len(parts) >= 3 THEN parts[3] ELSE undefined]

parse(ssmName, prefix) ==
    LET parts == split(substring(ssmName, Len(prefix)), "/")
    IN  [type |-> IF Len(parts) >= 1 THEN parts[1] ELSE undefined,
         id   |-> IF Len(parts) >= 2 THEN parts[2] ELSE undefined,
         prop |-> join(slice(parts, 2), "/")]

(***************************************************************************)
(* The SSM parameter store (external collaborator) and its contents.       *)
(***************************************************************************)
Val(text, length) == [text |-> text, length |-> length]

NoValue == Val("", 0)
NoParam == [Value |-> NoValue, Tier |-> "None"]
Exists(st, name) == st[name].Tier # "None"

\* Parameters written by deployments (not by this module).
FallbackParam == PREFIX_FALLBACK \o <<"Parameter", "/", "db", "_", "host", "/", "value">>
StageParam == PREFIX_STAGE \o <<"Parameter", "/", "db", "_", "host", "/", "value">>
StageParamDash == PREFIX_STAGE \o <<"Parameter", "/", "db", "-", "host", "/", "value">>
LegacySecret == PREFIX_STAGE \o <<"secrets", "/", "k">>

ExternalNames == {FallbackParam, StageParam, StageParamDash, LegacySecret}

ExternalValue(name) ==
    IF name = FallbackParam THEN Val("fallback.example", 16)
    ELSE IF name = StageParam THEN Val("stage.example", 13)
    ELSE IF name = StageParamDash THEN Val("other.example", 13)
    ELSE Val("legacy", 6)

\* Arguments of setSecret.
SecretKeys == {<<"k">>, <<"my", "-", "key">>}
SecretValues == {Val("short", 4096), Val("long", 4097)}

\* Mutant: the path is under the STAGE prefix whatever the flag.
SecretPathStageOnly(key, fallback) ==
    pathFor([id |-> key, type |-> <<"Secret">>, prop |-> <<"value">>,
             fallback |-> FALSE])

SecretPath(key, fallback) ==
    pathFor([id |-> key, type |-> <<"Secret">>, prop |-> <<"value">>,
             fallback |-> fallback])

SecretNames == {SecretPath(k, f) : k \in SecretKeys, f \in BOOLEAN}

Names == ExternalNames \cup SecretNames

\* The order in which the backend lists names (ascending), as a sequence.
NameOrder ==
    <<FallbackParam,
      SecretPath(<<"k">>, TRUE), SecretPath(<<"my", "-", "key">>, TRUE),
      StageParamDash, StageParam,
      SecretPath(<<"k">>, FALSE), SecretPath(<<"my", "-", "key">>, FALSE),
      LegacySecret>>

Reverse(s) == [i \in 1..Len(s) |-> s[Len(s) + 1 - i]]

\* GetParametersByPath, Recursive, all pages: every stored parameter under
\* the prefix, in the backend's listing order (ascending or descending).
scanParameters(st, prefix, descending) ==
    LET order == IF descending THEN Reverse(NameOrder) ELSE NameOrder
        under == SelectSeq(order, LAMBDA n : Exists(st, n) /\ startsWith(n, prefix))
    IN  [i \in 1..Len(under) |-> [Name |-> under[i], Value |-> st[under[i]].Value]]

(***************************************************************************)
(* Config.parameters and Config.env.                                       *)
(***************************************************************************)
IsSkippedType(type) == type = <<"secrets">>

\* One for-await loop of parameters(): parse, skip, push.
ParametersOf(page, prefix) ==
    LET kept == SelectSeq(page, LAMBDA p : ~IsSkippedType(parse(p.Name, prefix).type))
    IN  [i \in 1..Len(kept) |->
            LET parsed == parse(kept[i].Name, prefix)
            IN  [type |-> parsed.type, id |-> parsed.id, prop |-> parsed.prop,
                 value |-> kept[i].Value]]

\* Mutant: the STAGE prefix is scanned before the FALLBACK prefix.
parametersStageFirst(st, descFallback, descStage) ==
    ParametersOf(scanParameters(st, PREFIX_STAGE, descStage), PREFIX_STAGE)
        \o ParametersOf(scanParameters(st, PREFIX_FALLBACK, descFallback), PREFIX_FALLBACK)

parameters(st, descFallback, descStage) ==
    ParametersOf(scanParameters(st, PREFIX_FALLBACK, descFallback), PREFIX_FALLBACK)
        \o ParametersOf(scanParameters(st, PREFIX_STAGE, descStage), PREFIX_STAGE)

\* Object.fromEntries: a later entry overwrites an earlier one with its key.
fromEntries(entries) ==
    [k \in {entries[i][1] : i \in 1..Len(entries)} |->
        LET last == CHOOSE i \in 1..Len(entries) :
                        /\ entries[i][1] = k
                        /\ \A j \in (i + 1)..Len(entries) : entries[j][1] # k
        IN  entries[last][2]]

\* { ...a, ...b }: the keys of both, b's value where both have the key.
spread(a, b) ==
    [k \in DOMAIN a \cup DOMAIN b |-> IF k \in DOMAIN b THEN b[k] ELSE a[k]]

SST_APP == <<"SST", "_", "APP">>
SST_STAGE == <<"SST", "_", "STAGE">>

\* { SST_APP, SST_STAGE, ...pipe(parameters, map(p => [envFor(p), p.value]),
\*   Object.fromEntries) }
env(params) ==
    LET mapped == [i \in 1..Len(params) |-> <<envFor(params[i]), params[i].value>>]
    IN  spread(fromEntries(<< <<SST_APP, Val(AppName, 3)>>,
                              <<SST_STAGE, Val(StageName, 3)>> >>),
               fromEntries(mapped))

(***************************************************************************)
(* SSM commands and the backend's answers.                                 *)
(***************************************************************************)
TierThreshold == 4096

\* Mutant: the threshold itself already selects the Advanced tier.
putParameterInclusive(name, value) ==
    [cmd |-> "PutParameter", Name |-> name, Value |-> value,
     Type |-> "SecureString", Overwrite |-> TRUE,
     Tier |-> IF value.length >= TierThreshold THEN "Advanced" ELSE "Standard"]

putParameter(name, value) ==
    [cmd |-> "PutParameter", Name |-> name, Value |-> value,
     Type |-> "SecureString", Overwrite |-> TRUE,
     Tier |-> IF value.length > TierThreshold THEN "Advanced" ELSE "Standard"]

getParameter(name) ==
    [cmd |-> "GetParameter", Name |-> name, Value |-> NoValue,
     Type |-> "", Overwrite |-> FALSE, Tier |-> "", WithDecryption |-> TRUE]

deleteParameter(name) ==
    [cmd |-> "DeleteParameter", Name |-> name, Value |-> NoValue,
     Type |-> "", Overwrite |-> FALSE, Tier |-> ""]

Error(name, message) == [name |-> name, message |-> message]
Ok == Error("ok", <<>>)
NoError == Error("none", <<>>)

DowngradeMessage ==
    "This parameter uses the advanced-parameter tier. You can't downgrade a parameter from the advanced-parameter tier to the standard-parameter tier."

\* What SSM answers to a put that would downgrade an Advanced parameter.
DowngradeConflict ==
    Error("ValidationException",
          <<DowngradeMessage, " If necessary, you can delete the parameter and recreate it.">>)

\* Failures SSM can answer to any command.
SsmFailures ==
    {Error("ValidationException", <<"Parameter value is not valid.">>),
     Error("ThrottlingException", <<"Rate exceeded">>)}

\* The answers SSM can give to a command in a given store.
SsmAnswers(st, c) ==
    IF c.cmd = "PutParameter"
    THEN IF Exists(st, c.Name) /\ st[c.Name].Tier = "Advanced" /\ c.Tier = "Standard"
         THEN {DowngradeConflict} \cup SsmFailures
         ELSE {Ok} \cup SsmFailures
    ELSE IF Exists(st, c.Name)
         THEN {Ok} \cup SsmFailures
         ELSE {Error("ParameterNotFound", <<"Parameter not found">>)} \cup SsmFailures

\* The store after SSM answered Ok to a command.
SsmApply(st, c) ==
    IF c.cmd = "PutParameter"
    THEN [st EXCEPT ![c.Name] = [Value |-> c.Value, Tier |-> c.Tier]]
    ELSE [st EXCEPT ![c.Name] = NoParam]

(***************************************************************************)
(* Config.secrets.                                                         *)
(***************************************************************************)
\* if (!result[id]) result[id] = {};  result[id][field] = value
assign(result, id, field, value) ==
    LET entry == IF id \in DOMAIN result THEN result[id] ELSE <<>>
    IN  spread(result, id :> spread(entry, field :> value))

\* One for-await loop of secrets(): every record of the scan is parsed
\* against the prefix and its value stored under the field.
RECURSIVE collect(_, _, _, _)
collect(result, records, prefix, field) ==
    IF records = <<>>
    THEN result
    ELSE collect(assign(result, parse(Head(records).Name, prefix).id, field,
                        Head(records).Value),
                 Tail(records), prefix, field)

\* Mutant: the second loop scans the stage prefix again.
secretsStageTwice(st, descStage, descFallback) ==
    LET stage == collect(<<>>, scanParameters(st, PREFIX_STAGE \o <<"Secret">>, descStage),
                         PREFIX_STAGE, "value")
    IN  collect(stage, scanParameters(st, PREFIX_STAGE \o <<"Secret">>, descFallback),
                PREFIX_STAGE, "fallback")

secrets(st, descStage, descFallback) ==
    LET stage == collect(<<>>, scanParameters(st, PREFIX_STAGE \o <<"Secret">>, descStage),
                         PREFIX_STAGE, "value")
    IN  collect(stage, scanParameters(st, PREFIX_FALLBACK \o <<"Secret">>, descFallback),
                PREFIX_FALLBACK, "fallback")

(***************************************************************************)
(* Config.setSecret, one await at a time.                                  *)
(***************************************************************************)
\* `before` is what the store held at the secret's path when the call started.
NoInput == [key |-> <<>>, value |-> NoValue, fallback |-> FALSE, before |-> NoParam]

paramName == SecretPath(input.key, input.fallback)

\* Mutant: the message is compared for equality instead of by prefix.
wasAdvancedExactMessage(e) ==
    e.name = "ValidationException" /\ e.message = <<DowngradeMessage>>

\* Mutant: the error is classified by its name alone.
wasAdvancedNameOnly(e) == e.name = "ValidationException"

\* Mutant: every failure of the first put starts the recovery.
wasAdvancedAnyFailure(e) == TRUE

wasAdvanced(e) ==
    e.name = "ValidationException" /\ startsWith(e.message, <<DowngradeMessage>>)

\* Mutant: the event names the normalized id instead of the key given.
SecretUpdatedNormalized(key) ==
    [topic |-> <<"iot.prefix", "/", "events">>, type |-> "config.secret.updated",
     properties |-> [name |-> normalizeID(key)]]

SecretUpdated(key) ==
    [topic |-> <<"iot.prefix", "/", "events">>, type |-> "config.secret.updated",
     properties |-> [name |-> key]]

IotFailure == Error("IotError", <<"publish failed">>)

\* setSecret is called: the path is computed and the call reaches the first put.
SetSecret(key, value, fallback) ==
    /\ pc = "idle"
    /\ pc' = "put"
    /\ input' = [key |-> key, value |-> value, fallback |-> fallback,
                 before |-> store[SecretPath(key, fallback)]]
    /\ UNCHANGED <<store, ssmCalls, events, err, listed, envOut, secretsOut, secretOut>>
    /\ UNCHANGED otherThanStore

\* try { await putParameter(paramName, input.value) } catch (e) { ... }
PutFirst ==
    /\ pc = "put"
    /\ LET c == putParameter(paramName, input.value)
       IN  \E a \in SsmAnswers(store, c) :
            /\ ssmCalls' = Append(ssmCalls, [command |-> c, answer |-> a])
            /\ IF a = Ok
               THEN /\ store' = SsmApply(store, c)
                    /\ pc' = "publish"
                    /\ err' = err
               ELSE IF wasAdvanced(a)
               THEN /\ pc' = "delete"
                    /\ UNCHANGED <<store, err>>
               ELSE /\ pc' = "raised"
                    /\ err' = a
                    /\ store' = store
    /\ UNCHANGED <<input, events, listed, envOut, secretsOut, secretOut>>
    /\ UNCHANGED otherThanStore

\* await deleteParameter(paramName), inside the catch block.
DeleteAdvanced ==
    /\ pc = "delete"
    /\ LET c == deleteParameter(paramName)
       IN  \E a \in SsmAnswers(store, c) :
            /\ ssmCalls' = Append(ssmCalls, [command |-> c, answer |-> a])
            /\ IF a = Ok
               THEN /\ store' = SsmApply(store, c)
                    /\ pc' = "retry"
                    /\ err' = err
               ELSE /\ pc' = "raised"
                    /\ err' = a
                    /\ store' = store
    /\ UNCHANGED <<input, events, listed, envOut, secretsOut, secretOut>>
    /\ UNCHANGED otherThanStore

\* await putParameter(paramName, input.value), inside the catch block.
PutRetry ==
    /\ pc = "retry"
    /\ LET c == putParameter(paramName, input.value)
       IN  \E a \in SsmAnswers(store, c) :
            /\ ssmCalls' = Append(ssmCalls, [command |-> c, answer |-> a])
            /\ IF a = Ok
               THEN /\ store' = SsmApply(store, c)
                    /\ pc' = "publish"
                    /\ err' = err
               ELSE /\ pc' = "raised"
                    /\ err' = a
                    /\ store' = store
    /\ UNCHANGED <<input, events, listed, envOut, secretsOut, secretOut>>
    /\ UNCHANGED otherThanStore

\* const iot = await useIOT(); await iot.publish(topic, "config.secret.updated", ...)
Publish ==
    /\ pc = "publish"
    /\ \E a \in {Ok, IotFailure} :
        IF a = Ok
        THEN /\ events' = Append(events, SecretUpdated(input.key))
             /\ pc' = "returned"
             /\ err' = err
        ELSE /\ pc' = "raised"
             /\ err' = a
             /\ events' = events
    /\ UNCHANGED <<store, input, ssmCalls, listed, envOut, secretsOut, secretOut>>
    /\ UNCHANGED otherThanStore

\* Config.parameters(): both scans, in whatever order the backend lists.
Parameters ==
    /\ pc = "idle"
    /\ \E descFallback \in BOOLEAN, descStage \in BOOLEAN :
        listed' = parameters(store, descFallback, descStage)
    /\ pc' = "listed"
    /\ UNCHANGED <<store, input, ssmCalls, events, err, envOut, secretsOut, secretOut>>
    /\ UNCHANGED otherThanStore

\* Config.env(): Config.parameters() and the map built from it.
Env ==
    /\ pc = "idle"
    /\ \E descFallback \in BOOLEAN, descStage \in BOOLEAN :
        /\ listed' = parameters(store, descFallback, descStage)
        /\ envOut' = env(listed')
    /\ pc' = "env"
    /\ UNCHANGED <<store, input, ssmCalls, events, err, secretsOut, secretOut>>
    /\ UNCHANGED otherThanStore

\* Config.secrets(): both scans, in whatever order the backend lists.
Secrets ==
    /\ pc = "idle"
    /\ \E descStage \in BOOLEAN, descFallback \in BOOLEAN :
        secretsOut' = secrets(store, descStage, descFallback)
    /\ pc' = "secrets"
    /\ UNCHANGED <<store, input, ssmCalls, events, err, listed, envOut, secretOut>>
    /\ UNCHANGED otherThanStore

\* getSecret is called: the path is computed and the get is sent.
GetSecret(key, fallback) ==
    /\ pc = "idle"
    /\ pc' = "get"
    /\ input' = [key |-> key, value |-> NoValue, fallback |-> fallback,
                 before |-> store[SecretPath(key, fallback)]]
    /\ UNCHANGED <<store, ssmCalls, events, err, listed, envOut, secretsOut, secretOut>>
    /\ UNCHANGED otherThanStore

\* await getParameter(pathFor(...)); return result.Parameter?.Value
GetOnly ==
    /\ pc = "get"
    /\ LET c == getParameter(paramName)
       IN  \E a \in SsmAnswers(store, c) :
            /\ ssmCalls' = Append(ssmCalls, [command |-> c, answer |-> a])
            /\ IF a = Ok
               THEN /\ secretOut' = <<store[c.Name].Value>>
                    /\ pc' = "got"
                    /\ err' = err
               ELSE /\ pc' = "getRaised"
                    /\ err' = a
                    /\ secretOut' = secretOut
    /\ UNCHANGED <<store, input, events, listed, envOut, secretsOut>>
    /\ UNCHANGED otherThanStore

\* removeSecret is called: the path is computed and the delete is sent.
RemoveSecret(key, fallback) ==
    /\ pc = "idle"
    /\ pc' = "remove"
    /\ input' = [key |-> key, value |-> NoValue, fallback |-> fallback,
                 before |-> store[SecretPath(key, fallback)]]
    /\ UNCHANGED <<store, ssmCalls, events, err, listed, envOut, secretsOut, secretOut>>
    /\ UNCHANGED otherThanStore

\* await deleteParameter(pathFor(...)): no try around it.
DeleteOnly ==
    /\ pc = "remove"
    /\ LET c == deleteParameter(paramName)
       IN  \E a \in SsmAnswers(store, c) :
            /\ ssmCalls' = Append(ssmCalls, [command |-> c, answer |-> a])
            /\ IF a = Ok
               THEN /\ store' = SsmApply(store, c)
                    /\ pc' = "removed"
                    /\ err' = err
               ELSE /\ pc' = "removeRaised"
                    /\ err' = a
                    /\ store' = store
    /\ UNCHANGED <<input, events, listed, envOut, secretsOut, secretOut>>
    /\ UNCHANGED otherThanStore

\* The caller has seen the outcome; the next call starts from a clean slate.
CallDone ==
    /\ pc \in {"returned", "raised", "listed", "env", "secrets", "removed", "removeRaised",
              "got", "getRaised"}
    /\ pc' = "idle"
    /\ input' = NoInput
    /\ ssmCalls' = <<>>
    /\ events' = <<>>
    /\ err' = NoError
    /\ listed' = <<>>
    /\ envOut' = <<>>
    /\ secretsOut' = <<>>
    /\ secretOut' = <<>>
    /\ UNCHANGED store
    /\ UNCHANGED otherThanStore

InitStore ==
    /\ \E present \in SUBSET ExternalNames :
        store = [n \in Names |->
                    IF n \in present
                    THEN [Value |-> ExternalValue(n), Tier |-> "Standard"]
                    ELSE NoParam]
    /\ pc = "idle"
    /\ input = NoInput
    /\ ssmCalls = <<>>
    /\ events = <<>>
    /\ err = NoError
    /\ listed = <<>>
    /\ envOut = <<>>
    /\ secretsOut = <<>>
    /\ secretOut = <<>>

(***************************************************************************)
(* Deployment metadata (Stacks.metadata()) and the Lambda API.             *)
(***************************************************************************)
SiteTypes == {"AstroSite", "NextjsSite", "RemixSite", "SolidStartSite", "SvelteKitSite"}

Site(name, type, usedSecrets, mode, prefetchSecrets, edge, server) ==
    [name |-> name, type |-> type,
     data |-> [secrets |-> usedSecrets, mode |-> mode, prefetchSecrets |-> prefetchSecrets,
               edge |-> edge, server |-> server, arn |-> <<>>]]

Function(name, usedSecrets, prefetchSecrets, arn) ==
    [name |-> name, type |-> "Function",
     data |-> [secrets |-> usedSecrets, mode |-> "", prefetchSecrets |-> prefetchSecrets,
               edge |-> FALSE, server |-> <<>>, arn |-> arn]]

\* Number of further plain functions in the snapshot, all consuming both keys.
MaxPlainFunctions == 1

ServerA == <<"arn", "ssrA", 0>>
ServerB == <<"arn", "ssrB", 0>>

\* The snapshots: one stack with a site of a supported kind and a function
\* that may be that site's server function, one stack with a regional site
\* (or a construct of another kind) and plain functions.
Snapshots ==
    {<< <<Site(<<"A", 0>>, "NextjsSite", secA, mode, prefetchA, edge, ServerA),
          Function(<<"F", 0>>, secF, prefetchF, arnF)>>,
        <<Site(<<"B", 0>>, typeB, {"k"}, "deployed", FALSE, FALSE, ServerB)>>
            \o [i \in 1..MaxPlainFunctions |->
                    Function(<<"G", i>>, {"k", "j"}, FALSE, <<"arn", "fn", i>>)] >> :
        secA \in {{"k"}, {"j"}}, mode \in {"placeholder", "deployed"},
        prefetchA \in BOOLEAN, edge \in BOOLEAN,
        secF \in {{"k"}, {"j"}}, prefetchF \in BOOLEAN,
        arnF \in {<<"arn", "fnF", 0>>, ServerA},
        typeB \in {"SvelteKitSite", "StaticSite"}}

KeySets == {{"k"}, {"j"}}

\* Object.values(metadata).flat()
RECURSIVE flat(_)
flat(arrays) == IF Len(arrays) = 0 THEN <<>> ELSE Head(arrays) \o flat(Tail(arrays))

\* keys.some((key) => c.data.secrets.includes(key))
someKeyIncluded(ks, c) == \E key \in ks : key \in c.data.secrets

Range(seq) == {seq[i] : i \in 1..Len(seq)}

siteData(md, ks) ==
    SelectSeq(SelectSeq(flat(md), LAMBDA c : c.type \in SiteTypes),
              LAMBDA c : someKeyIncluded(ks, c))

siteDataPlaceholder(md, ks) ==
    SelectSeq(siteData(md, ks), LAMBDA c : c.data.mode = "placeholder")

siteDataWithPrefetchSecrets(md, ks) ==
    SelectSeq(SelectSeq(siteData(md, ks), LAMBDA c : c.data.mode = "deployed"),
              LAMBDA c : c.data.prefetchSecrets)

\* Mutant: the edge bucket is filtered without the prefetch test.
siteDataEdgeNoPrefetchTest(md, ks) ==
    SelectSeq(SelectSeq(siteData(md, ks), LAMBDA c : c.data.mode = "deployed"),
              LAMBDA c : c.data.edge)

siteDataEdge(md, ks) ==
    SelectSeq(SelectSeq(SelectSeq(siteData(md, ks),
                                  LAMBDA c : c.data.mode = "deployed"),
                        LAMBDA c : ~c.data.prefetchSecrets),
              LAMBDA c : c.data.edge)

\* Mutant: the regional bucket is filtered without the edge test.
siteDataRegionalNoEdgeTest(md, ks) ==
    SelectSeq(SelectSeq(siteData(md, ks), LAMBDA c : c.data.mode = "deployed"),
              LAMBDA c : ~c.data.prefetchSecrets)

siteDataRegional(md, ks) ==
    SelectSeq(SelectSeq(SelectSeq(siteData(md, ks),
                                  LAMBDA c : c.data.mode = "deployed"),
                        LAMBDA c : ~c.data.prefetchSecrets),
              LAMBDA c : ~c.data.edge)

\* siteData.map((s) => s.data.server)
regionalSiteArns(md, ks) == Range([i \in 1..Len(siteData(md, ks)) |-> siteData(md, ks)[i].data.server])

\* Mutant: the functions are filtered without the test on the sites' servers.
functionDataNoServerTest(md, ks) ==
    SelectSeq(SelectSeq(flat(md), LAMBDA c : c.type = "Function"),
              LAMBDA c : someKeyIncluded(ks, c))

functionData(md, ks) ==
    SelectSeq(SelectSeq(SelectSeq(flat(md), LAMBDA c : c.type = "Function"),
                        LAMBDA c : c.data.arn \notin regionalSiteArns(md, ks)),
              LAMBDA c : someKeyIncluded(ks, c))

functionDataWithPrefetchSecrets(md, ks) ==
    SelectSeq(functionData(md, ks), LAMBDA c : c.data.prefetchSecrets)

functionDataWithoutPrefetchSecrets(md, ks) ==
    SelectSeq(functionData(md, ks), LAMBDA c : ~c.data.prefetchSecrets)

\* Lambda commands and the answers the API can give.
GetFunctionConfiguration(arn) == [cmd |-> "GetFunctionConfiguration", FunctionName |-> arn]
UpdateFunctionConfiguration(arn) == [cmd |-> "UpdateFunctionConfiguration", FunctionName |-> arn]

FunctionNotFound == Error("ResourceNotFoundException", <<"Function not found", ": arn">>)

LambdaFailures ==
    {FunctionNotFound, Error("TooManyRequestsException", <<"Rate exceeded">>)}

LambdaAnswers == {Ok} \cup LambdaFailures

(***************************************************************************)
(* restartFunction: one promise per resource.                              *)
(***************************************************************************)
Returns(value) == [kind |-> "return", value |-> value, error |-> NoError]
Throws(e) == [kind |-> "throw", value |-> FALSE, error |-> e]

isFunctionNotFound(e) ==
    e.name = "ResourceNotFoundException" /\ startsWith(e.message, <<"Function not found">>)

\* Mutant: the catch block rethrows whatever it caught.
catchBlockRethrowsAll(e) == Throws(e)

\* Mutant: the catch block rethrows what is not the not-found error.
catchBlockRethrowsOther(e) ==
    IF isFunctionNotFound(e) THEN Returns(FALSE) ELSE Throws(e)

\* catch (e) { if (...) { return; } }  and the end of the function: undefined
\* either way (FALSE stands for undefined, which is falsy).
catchBlock(e) ==
    IF isFunctionNotFound(e) THEN Returns(FALSE) ELSE Returns(FALSE)

\* A pending restartFunction(arn) whose get has been sent.
Task(c, arn) ==
    [c |-> c, arn |-> arn, state |-> "get", value |-> FALSE, caught |-> NoError,
     error |-> NoError]

Settle(t, completion, e) ==
    [t EXCEPT !.state = IF completion.kind = "throw" THEN "rejected" ELSE "fulfilled",
              !.value = completion.value,
              !.caught = e,
              !.error = completion.error]

\* The get of task t is answered: the update is sent, or the catch block runs.
AfterGet(t, a) ==
    IF a = Ok THEN [t EXCEPT !.state = "update"] ELSE Settle(t, catchBlock(a), a)

\* The update of task t is answered: return true, or the catch block runs.
AfterUpdate(t, a) ==
    IF a = Ok THEN Settle(t, Returns(TRUE), NoError) ELSE Settle(t, catchBlock(a), a)

Sends(tasks) == [i \in 1..Len(tasks) |-> GetFunctionConfiguration(tasks[i].arn)]

AllFulfilled(tasks) == \A i \in 1..Len(tasks) : tasks[i].state = "fulfilled"
SomeRejected(tasks) == \E i \in 1..Len(tasks) : tasks[i].state = "rejected"

\* (await Promise.all(...)).filter((c) => Boolean(c)), with restarted ? c : restarted
restartedOf(tasks) ==
    LET kept == SelectSeq(tasks, LAMBDA t : t.value)
    IN  [i \in 1..Len(kept) |-> kept[i].c]

EmptyReport ==
    [edgeSites |-> <<>>, sites |-> <<>>, placeholderSites |-> <<>>, functions |-> <<>>,
     sitesWithPrefetch |-> <<>>, functionsWithPrefetch |-> <<>>]

(***************************************************************************)
(* Config.restart, one await at a time.                                    *)
(***************************************************************************)
\* restart(keys) is called: the metadata is read and filtered, and every
\* promise of the first Promise.all is created, which sends its get.
Restart(ks) ==
    /\ rpc = "idle"
    /\ keys' = ks
    /\ siteTasks' = [i \in 1..Len(siteDataRegional(metadata, ks)) |->
                        Task(siteDataRegional(metadata, ks)[i],
                             siteDataRegional(metadata, ks)[i].data.server)]
    /\ lambdaCalls' = Sends(siteTasks')
    /\ rpc' = "sites"
    /\ UNCHANGED <<metadata, fnTasks, report, restartErr>>
    /\ UNCHANGED otherThanRestart

SiteGetAnswered(i, a) ==
    /\ rpc = "sites"
    /\ i \in 1..Len(siteTasks)
    /\ siteTasks[i].state = "get"
    /\ siteTasks' = [siteTasks EXCEPT ![i] = AfterGet(siteTasks[i], a)]
    /\ lambdaCalls' = IF a = Ok
                      THEN Append(lambdaCalls, UpdateFunctionConfiguration(siteTasks[i].arn))
                      ELSE lambdaCalls
    /\ UNCHANGED <<metadata, keys, rpc, fnTasks, report, restartErr>>
    /\ UNCHANGED otherThanRestart

SiteUpdateAnswered(i, a) ==
    /\ rpc = "sites"
    /\ i \in 1..Len(siteTasks)
    /\ siteTasks[i].state = "update"
    /\ siteTasks' = [siteTasks EXCEPT ![i] = AfterUpdate(siteTasks[i], a)]
    /\ UNCHANGED <<metadata, keys, rpc, fnTasks, lambdaCalls, report, restartErr>>
    /\ UNCHANGED otherThanRestart

\* The first Promise.all settles: restart rejects with the first rejection,
\* otherwise the promises of the second Promise.all are created.
SitesSettled ==
    /\ rpc = "sites"
    /\ SomeRejected(siteTasks) \/ AllFulfilled(siteTasks)
    /\ IF SomeRejected(siteTasks)
       THEN /\ rpc' = "rejected"
            /\ \E i \in 1..Len(siteTasks) :
                /\ siteTasks[i].state = "rejected"
                /\ restartErr' = siteTasks[i].error
            /\ UNCHANGED <<fnTasks, lambdaCalls>>
       ELSE /\ rpc' = "functions"
            /\ fnTasks' = [i \in 1..Len(functionDataWithoutPrefetchSecrets(metadata, keys)) |->
                            Task(functionDataWithoutPrefetchSecrets(metadata, keys)[i],
                                 functionDataWithoutPrefetchSecrets(metadata, keys)[i].data.arn)]
            /\ lambdaCalls' = lambdaCalls \o Sends(fnTasks')
            /\ restartErr' = restartErr
    /\ UNCHANGED <<metadata, keys, siteTasks, report>>
    /\ UNCHANGED otherThanRestart

FunctionGetAnswered(i, a) ==
    /\ rpc = "functions"
    /\ i \in 1..Len(fnTasks)
    /\ fnTasks[i].state = "get"
    /\ fnTasks' = [fnTasks EXCEPT ![i] = AfterGet(fnTasks[i], a)]
    /\ lambdaCalls' = IF a = Ok
                      THEN Append(lambdaCalls, UpdateFunctionConfiguration(fnTasks[i].arn))
                      ELSE lambdaCalls
    /\ UNCHANGED <<metadata, keys, rpc, siteTasks, report, restartErr>>
    /\ UNCHANGED otherThanRestart

FunctionUpdateAnswered(i, a) ==
    /\ rpc = "functions"
    /\ i \in 1..Len(fnTasks)
    /\ fnTasks[i].state = "update"
    /\ fnTasks' = [fnTasks EXCEPT ![i] = AfterUpdate(fnTasks[i], a)]
    /\ UNCHANGED <<metadata, keys, rpc, siteTasks, lambdaCalls, report, restartErr>>
    /\ UNCHANGED otherThanRestart

\* The second Promise.all settles: restart rejects, or returns the report.
FunctionsSettled ==
    /\ rpc = "functions"
    /\ SomeRejected(fnTasks) \/ AllFulfilled(fnTasks)
    /\ IF SomeRejected(fnTasks)
       THEN /\ rpc' = "rejected"
            /\ \E i \in 1..Len(fnTasks) :
                /\ fnTasks[i].state = "rejected"
                /\ restartErr' = fnTasks[i].error
            /\ report' = report
       ELSE /\ rpc' = "resolved"
            /\ report' = [edgeSites |-> siteDataEdge(metadata, keys),
                          sites |-> restartedOf(siteTasks),
                          placeholderSites |-> siteDataPlaceholder(metadata, keys),
                          functions |-> restartedOf(fnTasks),
                          sitesWithPrefetch |-> siteDataWithPrefetchSecrets(metadata, keys),
                          functionsWithPrefetch |-> functionDataWithPrefetchSecrets(metadata, keys)]
            /\ restartErr' = restartErr
    /\ UNCHANGED <<metadata, keys, siteTasks, fnTasks, lambdaCalls>>
    /\ UNCHANGED otherThanRestart

\* The caller has seen the outcome; the next restart starts from a clean slate.
RestartReturn ==
    /\ rpc \in {"resolved", "rejected"}
    /\ rpc' = "idle"
    /\ keys' = {}
    /\ siteTasks' = <<>>
    /\ fnTasks' = <<>>
    /\ lambdaCalls' = <<>>
    /\ report' = EmptyReport
    /\ restartErr' = NoError
    /\ UNCHANGED metadata
    /\ UNCHANGED otherThanRestart

InitStoreIdle ==
    /\ store = [n \in Names |-> NoParam]
    /\ pc = "idle"
    /\ input = NoInput
    /\ ssmCalls = <<>>
    /\ events = <<>>
    /\ err = NoError
    /\ listed = <<>>
    /\ envOut = <<>>
    /\ secretsOut = <<>>
    /\ secretOut = <<>>

InitSnapshot ==
    /\ metadata \in Snapshots
    /\ keys = {}
    /\ rpc = "idle"
    /\ siteTasks = <<>>
    /\ fnTasks = <<>>
    /\ lambdaCalls = <<>>
    /\ report = EmptyReport
    /\ restartErr = NoError

NextRestart ==
    \/ \E ks \in KeySets : Restart(ks)
    \/ \E i \in 1..Len(siteTasks), a \in LambdaAnswers : SiteGetAnswered(i, a)
    \/ \E i \in 1..Len(siteTasks), a \in LambdaAnswers : SiteUpdateAnswered(i, a)
    \/ SitesSettled
    \/ \E i \in 1..Len(fnTasks), a \in LambdaAnswers : FunctionGetAnswered(i, a)
    \/ \E i \in 1..Len(fnTasks), a \in LambdaAnswers : FunctionUpdateAnswered(i, a)
    \/ FunctionsSettled
    \/ RestartReturn

InitRestart == InitStoreIdle /\ InitSnapshot /\ InitFnIdle /\ InitScanIdle /\ InitPureIdle /\ InitElsewhereIdle

SpecRestart == InitRestart /\ [][NextRestart]_vars

InitRestartIdle ==
    /\ metadata = <<>>
    /\ keys = {}
    /\ rpc = "idle"
    /\ siteTasks = <<>>
    /\ fnTasks = <<>>
    /\ lambdaCalls = <<>>
    /\ report = EmptyReport
    /\ restartErr = NoError

Init == InitStore /\ InitRestartIdle /\ InitFnIdle /\ InitScanIdle /\ InitPureIdle /\ InitElsewhereIdle

Next ==
    \/ \E key \in SecretKeys, value \in SecretValues, fallback \in BOOLEAN :
        SetSecret(key, value, fallback)
    \/ PutFirst
    \/ DeleteAdvanced
    \/ PutRetry
    \/ Publish
    \/ Parameters
    \/ Env
    \/ Secrets
    \/ \E key \in SecretKeys, fallback \in BOOLEAN : RemoveSecret(key, fallback)
    \/ DeleteOnly
    \/ \E key \in SecretKeys, fallback \in BOOLEAN : GetSecret(key, fallback)
    \/ GetOnly
    \/ CallDone

Spec == Init /\ [][Next]_vars

(***************************************************************************)
(* restartFunction(arn) on one Lambda function, called by two callers       *)
(* whose awaits interleave; the function's environment and the clock are   *)
(* part of the state.                                                      *)
(***************************************************************************)
SECRET_UPDATED_AT_ENV == "SST_ADMIN_SECRET_UPDATED_AT"

TheFunction == <<"arn", "fn", 0>>
Callers == {1, 2}

\* Date.now() stays within 1..MaxClock.
MaxClock == 3

\* `Environment` of a function configuration: absent, or {Variables}.
NoEnvironment == [absent |-> TRUE]
Environment(variables) == [Variables |-> variables]

\* The configurations the function can have before the calls: no
\* environment, a variable of its own, and the same after an earlier restart.
Environments ==
    {NoEnvironment,
     Environment([FOO |-> "bar"]),
     Environment([FOO |-> "bar", SST_ADMIN_SECRET_UPDATED_AT |-> ToString(0)])}

NoConfig == [Environment |-> NoEnvironment]

\* Mutant: the variables read are dropped.
variablesOfNothing(config) == <<>>

\* config.Environment?.Variables || {}
variablesOf(config) ==
    IF "Variables" \in DOMAIN config.Environment
    THEN config.Environment.Variables
    ELSE <<>>

\* Mutant: only the timestamp entry is written.
updatedVariablesOnlyTimestamp(config, now) ==
    SECRET_UPDATED_AT_ENV :> ToString(now)

\* Mutant: the timestamp entry does not depend on the clock.
updatedVariablesFixedStamp(config, now) ==
    spread(variablesOf(config), SECRET_UPDATED_AT_ENV :> ToString(0))

\* { ...(config.Environment?.Variables || {}),
\*   [SECRET_UPDATED_AT_ENV]: Date.now().toString() }
updatedVariables(config, now) ==
    spread(variablesOf(config), SECRET_UPDATED_AT_ENV :> ToString(now))

UpdateFunctionConfigurationCommand(arn, variables) ==
    [cmd |-> "UpdateFunctionConfiguration", FunctionName |-> arn,
     Environment |-> Environment(variables)]

\* Lambda replaces the environment by the one of the command.
\* Mutant: Lambda drops the environment instead of storing the one sent.
LambdaApplyNothing(c) == NoEnvironment

LambdaApply(c) == c.Environment

\* Another client of the Lambda API (a deployment, the console) and the
\* variables it sends: FOO changed, the other entries as it found them.
OtherWriter == 0
otherVariables(e) ==
    [k \in (IF "Variables" \in DOMAIN e THEN DOMAIN e.Variables ELSE {}) \cup {"FOO"} |->
        IF k = "FOO" THEN "baz" ELSE e.Variables[k]]

\* One caller's restartFunction(arn): the promise, what its get returned,
\* the Date.now() it read, the update it sent, the environment the function
\* had when the call settled, and the callers that had settled when it began.
Call(i) ==
    [task |-> [Task(<<"caller", i>>, TheFunction) EXCEPT !.state = "idle"],
     config |-> NoConfig,
     now |-> 0,
     sent |-> UpdateFunctionConfigurationCommand(TheFunction, <<>>),
     left |-> NoEnvironment,
     after |-> {}]

SettledState(t) == t.state \in {"fulfilled", "rejected"}
SettledCallers == {j \in DOMAIN rfTasks : SettledState(rfTasks[j].task)}

Logged(i, c, a, response) ==
    [caller |-> i, command |-> c, answer |-> a, response |-> response]

\* restartFunction(arn) is called: the get is sent.
RestartFunction(i) ==
    /\ rfTasks[i].task.state = "idle"
    /\ rfTasks' = [rfTasks EXCEPT ![i].task.state = "get",
                                  ![i].after = SettledCallers]
    /\ UNCHANGED <<fnEnv, clock, rfLog>>
    /\ UNCHANGED otherThanFn

\* The get is answered: with a configuration, from which the update is
\* built and sent, or with an error, which the catch block handles.
GetAnswered(i, a) ==
    /\ rfTasks[i].task.state = "get"
    /\ LET config == [Environment |-> fnEnv]
       IN  /\ rfTasks' = [rfTasks EXCEPT
                ![i] = IF a = Ok
                       THEN [@ EXCEPT
                                !.task = AfterGet(@, a),
                                !.config = config,
                                !.now = clock,
                                !.sent = UpdateFunctionConfigurationCommand(
                                             TheFunction, updatedVariables(config, clock))]
                       ELSE [@ EXCEPT !.task = AfterGet(@, a), !.left = fnEnv]]
           /\ rfLog' = Append(rfLog, Logged(i, GetFunctionConfiguration(TheFunction), a,
                                            IF a = Ok THEN config ELSE NoConfig))
    /\ UNCHANGED <<fnEnv, clock>>
    /\ UNCHANGED otherThanFn

\* The update is answered: applied by Lambda and `return true`, or an error,
\* which the catch block handles.
UpdateAnswered(i, a) ==
    /\ rfTasks[i].task.state = "update"
    /\ fnEnv' = IF a = Ok THEN LambdaApply(rfTasks[i].sent) ELSE fnEnv
    /\ rfTasks' = [rfTasks EXCEPT ![i].task = AfterUpdate(@, a), ![i].left = fnEnv']
    /\ rfLog' = Append(rfLog, Logged(i, rfTasks[i].sent, a, NoConfig))
    /\ UNCHANGED clock
    /\ UNCHANGED otherThanFn

\* The other writer's UpdateFunctionConfiguration is applied by Lambda (once).
OtherUpdate ==
    /\ \A n \in 1..Len(rfLog) : rfLog[n].caller # OtherWriter
    /\ LET c == UpdateFunctionConfigurationCommand(TheFunction, otherVariables(fnEnv))
       IN  /\ fnEnv' = LambdaApply(c)
           /\ rfLog' = Append(rfLog, Logged(OtherWriter, c, Ok, NoConfig))
    /\ UNCHANGED <<clock, rfTasks>>
    /\ UNCHANGED otherThanFn

\* A millisecond passes.
Tick ==
    /\ clock < MaxClock
    /\ clock' = clock + 1
    /\ UNCHANGED <<fnEnv, rfTasks, rfLog>>
    /\ UNCHANGED otherThanFn

InitFn ==
    /\ fnEnv \in Environments
    /\ clock = 1
    /\ rfTasks = [i \in Callers |-> Call(i)]
    /\ rfLog = <<>>

NextRestartFunction ==
    \/ \E i \in Callers : RestartFunction(i)
    \/ \E i \in Callers, a \in LambdaAnswers : GetAnswered(i, a)
    \/ \E i \in Callers, a \in LambdaAnswers : UpdateAnswered(i, a)
    \/ OtherUpdate
    \/ Tick

InitRestartFunction ==
    InitStoreIdle /\ InitRestartIdle /\ InitFn /\ InitScanIdle /\ InitPureIdle /\ InitElsewhereIdle

SpecRestartFunction == InitRestartFunction /\ [][NextRestartFunction]_vars

(***************************************************************************)
(* scanParameters(prefix), one GetParametersByPath at a time. A token is   *)
(* <<>> when undefined and <<t>> when it is the string t.                  *)
(***************************************************************************)
\* Number of pages the backend serves to one scan.
MaxPages == 3

NoToken == <<>>
Tokens == {NoToken, <<"">>, <<"t1">>, <<"t2">>}

Record(name) == [Name |-> name, Value |-> ExternalValue(name)]

\* `Parameters` of a page, when the page has the field.
ParameterLists ==
    {<<>>, <<Record(StageParam)>>, <<Record(StageParamDash), Record(StageParam)>>}

\* The results the backend can answer with.
Results ==
    {[NextToken |-> t] : t \in Tokens}
    \cup {[Parameters |-> ps, NextToken |-> t] : ps \in ParameterLists, t \in Tokens}

GetParametersByPath(prefix, nextToken) ==
    [cmd |-> "GetParametersByPath", Path |-> prefix, WithDecryption |-> TRUE,
     Recursive |-> TRUE, NextToken |-> nextToken]

\* results.Parameters || []
parametersOrEmpty(results) ==
    IF "Parameters" \in DOMAIN results THEN results.Parameters ELSE <<>>

\* !results.NextToken
noNextToken(results) == results.NextToken = NoToken \/ results.NextToken = <<"">>

\* Mutant: the token of the results is not kept for the next request.
tokenAfterForgotten(results) == NoToken

\* token = results.NextToken
tokenAfter(results) == results.NextToken

\* A consumer starts iterating scanParameters(prefix): `let token`, and the
\* first request is sent.
Scan(prefix) ==
    /\ scanPc \in {"idle", "done", "raised"}
    /\ token' = NoToken
    /\ requests' = <<GetParametersByPath(prefix, token')>>
    /\ pages' = <<>>
    /\ yielded' = <<>>
    /\ scanPc' = "await"
    /\ UNCHANGED otherThanScan

\* The request is answered: the records are yielded, and the loop ends or
\* goes round with the token of the results.
Receive(results) ==
    /\ scanPc = "await"
    /\ Len(pages) < MaxPages
    /\ pages' = Append(pages, results)
    /\ yielded' = yielded \o parametersOrEmpty(results)
    /\ IF noNextToken(results)
       THEN /\ scanPc' = "done"
            /\ UNCHANGED <<token, requests>>
       ELSE /\ token' = tokenAfter(results)
            /\ requests' = Append(requests, GetParametersByPath(requests[1].Path, token'))
            /\ scanPc' = "await"
    /\ UNCHANGED otherThanScan

\* The request is rejected: the generator throws.
Reject ==
    /\ scanPc = "await"
    /\ scanPc' = "raised"
    /\ UNCHANGED <<token, requests, pages, yielded>>
    /\ UNCHANGED otherThanScan

InitScanner ==
    /\ scanPc = "idle"
    /\ token = NoToken
    /\ requests = <<>>
    /\ pages = <<>>
    /\ yielded = <<>>

NextScan ==
    \/ \E prefix \in {PREFIX_STAGE, PREFIX_FALLBACK, PREFIX_STAGE \o <<"Secret">>} :
        Scan(prefix)
    \/ \E results \in Results : Receive(results)
    \/ Reject

InitScan ==
    InitStoreIdle /\ InitRestartIdle /\ InitFnIdle /\ InitScanner /\ InitPureIdle /\ InitElsewhereIdle

SpecScan == InitScan /\ [][NextScan]_vars

(***************************************************************************)
(* pathFor and normalizeID applied to given inputs, call after call.       *)
(***************************************************************************)
\* Number of calls of each function on the input.
MaxCalls == 2

Types == {<<"Secret">>, <<"Parameter">>}
Ids ==
    {<<>>, <<"k">>, <<"-", "-">>, <<"a", "_", "b">>, <<"a", "-", "b", "_", "c">>,
     <<"my", "-", "secret", "-", "key">>, <<"a", "/", "b">>}
Props == {<<"value">>, <<"url">>, <<"b", "/", "value">>}

\* pathFor({type, id, prop, fallback}) is called and its result kept.
PathFor(fallback) ==
    /\ Len(pathOut[fallback]) < MaxCalls
    /\ pathOut' = [pathOut EXCEPT ![fallback] =
                      Append(@, pathFor([type |-> pureInput.type, id |-> pureInput.id,
                                         prop |-> pureInput.prop, fallback |-> fallback]))]
    /\ UNCHANGED <<pureInput, normOut, parseOut>>
    /\ UNCHANGED otherThanPure

\* normalizeID is called on the id, then on its own last result.
NormalizeID ==
    /\ Len(normOut) < MaxCalls
    /\ normOut' = Append(normOut, normalizeID(IF normOut = <<>>
                                              THEN pureInput.id
                                              ELSE normOut[Len(normOut)]))
    /\ UNCHANGED <<pureInput, pathOut, parseOut>>
    /\ UNCHANGED otherThanPure

\* parse is applied to the path pathFor gives, against the prefix of the flag.
Parse(fallback) ==
    /\ Len(parseOut) < MaxCalls
    /\ parseOut' = Append(parseOut,
                          [fallback |-> fallback,
                           result |-> parse(pathFor([type |-> pureInput.type,
                                                     id |-> pureInput.id,
                                                     prop |-> pureInput.prop,
                                                     fallback |-> fallback]),
                                            IF fallback THEN PREFIX_FALLBACK ELSE PREFIX_STAGE)])
    /\ UNCHANGED <<pureInput, pathOut, normOut>>
    /\ UNCHANGED otherThanPure

InitInput ==
    /\ pureInput \in [type : Types, id : Ids, prop : Props]
    /\ pathOut = [fallback \in BOOLEAN |-> <<>>]
    /\ normOut = <<>>
    /\ parseOut = <<>>

NextPure ==
    \/ \E fallback \in BOOLEAN : PathFor(fallback)
    \/ NormalizeID
    \/ \E fallback \in BOOLEAN : Parse(fallback)

InitPure ==
    InitStoreIdle /\ InitRestartIdle /\ InitFnIdle /\ InitScanIdle /\ InitInput /\ InitElsewhereIdle

SpecPure == InitPure /\ [][NextPure]_vars

\* The Config module's parts as constructed, for the specifications of the
\* other modules.
InitConfigIdle ==
    InitStoreIdle /\ InitRestartIdle /\ InitFnIdle /\ InitScanIdle /\ InitPureIdle

(***************************************************************************)
(* node/future/auth/adapter/google.js: the lazy issuer proxy.  Every       *)
(* property access runs the async get trap; accesses interleave at its     *)
(* await.                                                                  *)
(***************************************************************************)
Accessors == {1, 2, 3}
IssuerProps == {"metadata", "Client"}

\* Number of Issuer.discover calls made.
MaxDiscover == 3

\* `realIssuer` before the first assignment (undefined).
NoIssuer == <<>>
\* The object the n-th Issuer.discover call resolves with.
IssuerOf(n) == <<"issuer", n>>
\* realIssuer[prop]
PropertyOf(issuerObject, prop) == <<issuerObject, prop>>

DiscoverFailure == Error("OPError", <<"discovery failed">>)
Pending == Error("pending", <<>>)

NoAccess == [state |-> "idle", prop |-> "", call |-> 0, result |-> <<>>, error |-> NoError]

\* issuer[prop] is read: the get trap runs up to the await, or to its return
\* when realIssuer is already set.
Access(i, prop) ==
    /\ accesses[i].state = "idle"
    /\ IF realIssuer = NoIssuer
       THEN /\ Len(discoverCalls) < MaxDiscover
            /\ discoverCalls' = Append(discoverCalls, [by |-> i, answer |-> Pending])
            /\ accesses' = [accesses EXCEPT ![i] =
                    [NoAccess EXCEPT !.state = "await", !.prop = prop,
                                     !.call = Len(discoverCalls')]]
       ELSE /\ accesses' = [accesses EXCEPT ![i] =
                    [NoAccess EXCEPT !.state = "resolved", !.prop = prop,
                                     !.result = PropertyOf(realIssuer, prop)]]
            /\ UNCHANGED discoverCalls
    /\ UNCHANGED realIssuer
    /\ UNCHANGED otherThanIssuer

\* Issuer.discover resolves: realIssuer is assigned and realIssuer[prop] returned.
Discovered(i) ==
    /\ accesses[i].state = "await"
    /\ realIssuer' = IssuerOf(accesses[i].call)
    /\ discoverCalls' = [discoverCalls EXCEPT ![accesses[i].call].answer = Ok]
    /\ accesses' = [accesses EXCEPT ![i].state = "resolved",
                                    ![i].result = PropertyOf(realIssuer', accesses[i].prop)]
    /\ UNCHANGED otherThanIssuer

\* Issuer.discover rejects: so does the access.
DiscoverRejected(i) ==
    /\ accesses[i].state = "await"
    /\ discoverCalls' = [discoverCalls EXCEPT ![accesses[i].call].answer = DiscoverFailure]
    /\ accesses' = [accesses EXCEPT ![i].state = "rejected", ![i].error = DiscoverFailure]
    /\ UNCHANGED realIssuer
    /\ UNCHANGED otherThanIssuer

\* The accessor has its value or its error and may read a property again.
AccessDone(i) ==
    /\ accesses[i].state \in {"resolved", "rejected"}
    /\ accesses' = [accesses EXCEPT ![i] = NoAccess]
    /\ UNCHANGED <<realIssuer, discoverCalls>>
    /\ UNCHANGED otherThanIssuer

InitIssuerModule ==
    /\ realIssuer = NoIssuer
    /\ accesses = [i \in Accessors |-> NoAccess]
    /\ discoverCalls = <<>>

NextIssuer ==
    \/ \E i \in Accessors, prop \in IssuerProps : Access(i, prop)
    \/ \E i \in Accessors : Discovered(i)
    \/ \E i \in Accessors : DiscoverRejected(i)
    \/ \E i \in Accessors : AccessDone(i)

InitIssuer ==
    InitConfigIdle /\ InitIssuerModule /\ InitDeployIdle /\ InitSdkIdle
        /\ InitStreamIdle /\ InitPothosIdle

SpecIssuer == InitIssuer /\ [][NextIssuer]_vars

(***************************************************************************)
(* cdk/deployments.js: Deployments.deployStack, one await at a time.  An   *)
(* optional value is <<>> when undefined and <<v>> when it is v.           *)
(***************************************************************************)
DirectMethod == [method |-> "direct", changeSetName |-> <<>>, execute |-> <<>>]
ChangeSetMethod(changeSetName, execute) ==
    [method |-> "change-set", changeSetName |-> changeSetName, execute |-> execute]

\* Artifacts a stack can depend on.
AssetManifest(file) == [kind |-> "cdk:asset-manifest", file |-> file]
OtherArtifact(id) == [kind |-> "aws:cloudformation:stack", file |-> id]

DependencyLists ==
    {<<>>,
     <<AssetManifest("a.assets.json")>>,
     <<OtherArtifact("base"), AssetManifest("a.assets.json"), AssetManifest("b.assets.json")>>,
     <<AssetManifest("b.assets.json"), OtherArtifact("base"), AssetManifest("a.assets.json")>>}

\* The arguments of deployStack that it looks at.
DeployOptions ==
    [deploymentMethod : {<<>>, <<DirectMethod>>, <<ChangeSetMethod(<<"mine">>, <<FALSE>>)>>},
     changeSetName : {<<>>, <<"">>, <<"cs">>},
     execute : {<<>>, <<TRUE>>, <<FALSE>>},
     dependencies : DependencyLists]

\* Mutant: only the change set name is looked at.
usesChangeSetOptionsNameOnly(opts) == opts.changeSetName \notin {<<>>, <<"">>}

\* options.changeSetName || options.execute !== undefined
usesChangeSetOptions(opts) ==
    opts.changeSetName \notin {<<>>, <<"">>} \/ opts.execute # <<>>

BothSupplied ==
    Error("Error",
          <<"You cannot supply both 'deploymentMethod' and 'changeSetName/execute'",
            ". Supply one or the other.">>)

\* `deploymentMethod` after the first statement of deployStack.
deploymentMethodOf(opts) ==
    IF usesChangeSetOptions(opts)
    THEN <<ChangeSetMethod(opts.changeSetName, opts.execute)>>
    ELSE opts.deploymentMethod

isAssetManifestArtifact(artifact) == artifact.kind = "cdk:asset-manifest"

\* Mutant: every dependency is published.
assetArtifactsUnfiltered(opts) == opts.dependencies

\* options.stack.dependencies.filter(cxapi.AssetManifestArtifact.isAssetManifestArtifact)
assetArtifacts(opts) == SelectSeq(opts.dependencies, isAssetManifestArtifact)

\* A collaborator is called; its answer is still to come.
Step(step, asset, method) ==
    [step |-> step, asset |-> asset, deploymentMethod |-> method, answer |-> Pending]

Answered(steps, a) == [steps EXCEPT ![Len(steps)].answer = a]

Published == Cardinality({n \in 1..Len(deploySteps) : deploySteps[n].step = "publishAssets"})

SdkFailure == Error("AuthenticationError", <<"Need to perform AWS calls">>)
VersionFailure == Error("Error", <<"This CDK deployment requires bootstrap stack version 6">>)
PublishFailure == Error("Error", <<"Failed to publish one or more assets">>)
DeployFailure == Error("Error", <<"The stack failed to deploy">>)

StackName == "my-stack"

\* deployStack(options) is called: it throws at once, or calls prepareSdkFor.
DeployStack(opts) ==
    /\ dpc = "idle"
    /\ options' = opts
    /\ IF usesChangeSetOptions(opts) /\ opts.deploymentMethod # <<>>
       THEN /\ dpc' = "rejected"
            /\ deployErr' = BothSupplied
            /\ UNCHANGED deploySteps
       ELSE /\ dpc' = "prepareSdkFor"
            /\ deploySteps' = <<Step("prepareSdkFor", "", <<>>)>>
            /\ UNCHANGED deployErr
    /\ UNCHANGED otherThanDeploy

\* await this.prepareSdkFor(...): then validateBootstrapStackVersion is called.
Prepared(a) ==
    /\ dpc = "prepareSdkFor"
    /\ IF a = Ok
       THEN /\ dpc' = "validateVersion"
            /\ deploySteps' = Append(Answered(deploySteps, a), Step("validateVersion", "", <<>>))
            /\ UNCHANGED deployErr
       ELSE /\ dpc' = "rejected"
            /\ deploySteps' = Answered(deploySteps, a)
            /\ deployErr' = a
    /\ UNCHANGED options
    /\ UNCHANGED otherThanDeploy

\* The next thing deployStack does once the step in progress has succeeded:
\* publish the next asset manifest, or call the underlying deployStack.
Proceed(steps, published) ==
    IF published < Len(assetArtifacts(options))
    THEN Append(steps, Step("publishAssets", assetArtifacts(options)[published + 1].file, <<>>))
    ELSE Append(steps, Step("deployStack", "", deploymentMethodOf(options)))

\* await this.validateBootstrapStackVersion(...): a failure is rethrown with
\* the stack name in front.
Validated(a) ==
    /\ dpc = "validateVersion"
    /\ IF a = Ok
       THEN /\ deploySteps' = Proceed(Answered(deploySteps, a), 0)
            /\ dpc' = deploySteps'[Len(deploySteps')].step
            /\ UNCHANGED deployErr
       ELSE /\ dpc' = "rejected"
            /\ deploySteps' = Answered(deploySteps, a)
            /\ deployErr' = Error("Error", <<StackName, ": ">> \o a.message)
    /\ UNCHANGED options
    /\ UNCHANGED otherThanDeploy

\* await publishAssets(manifest, ...) for the asset manifest in turn.
AssetsPublished(a) ==
    /\ dpc = "publishAssets"
    /\ IF a = Ok
       THEN /\ deploySteps' = Proceed(Answered(deploySteps, a), Published)
            /\ dpc' = deploySteps'[Len(deploySteps')].step
            /\ UNCHANGED deployErr
       ELSE /\ dpc' = "rejected"
            /\ deploySteps' = Answered(deploySteps, a)
            /\ deployErr' = a
    /\ UNCHANGED options
    /\ UNCHANGED otherThanDeploy

\* return deployStack({...}): the promise of the underlying deployStack.
Deployed(a) ==
    /\ dpc = "deployStack"
    /\ deploySteps' = Answered(deploySteps, a)
    /\ dpc' = IF a = Ok THEN "resolved" ELSE "rejected"
    /\ deployErr' = IF a = Ok THEN deployErr ELSE a
    /\ UNCHANGED options
    /\ UNCHANGED otherThanDeploy

\* deployStack has not been called: no argument yet.
NoOptions ==
    [deploymentMethod |-> <<>>, changeSetName |-> <<>>, execute |-> <<>>,
     dependencies |-> <<>>]

InitDeployments ==
    /\ dpc = "idle"
    /\ options = NoOptions
    /\ deploySteps = <<>>
    /\ deployErr = NoError

NextDeploy ==
    \/ \E opts \in DeployOptions : DeployStack(opts)
    \/ \E a \in {Ok, SdkFailure} : Prepared(a)
    \/ \E a \in {Ok, VersionFailure} : Validated(a)
    \/ \E a \in {Ok, PublishFailure} : AssetsPublished(a)
    \/ \E a \in {Ok, DeployFailure} : Deployed(a)

InitDeploy ==
    InitConfigIdle /\ InitIssuerIdle /\ InitDeployments /\ InitSdkIdle
        /\ InitStreamIdle /\ InitPothosIdle

SpecDeploy == InitDeploy /\ [][NextDeploy]_vars

(***************************************************************************)
(* cdk/deployments.js: Deployments.cachedSdkForEnvironment, called by      *)
(* callers whose awaits interleave.                                        *)
(***************************************************************************)
SdkCallers == {1, 2}

\* Number of sdkProvider.forEnvironment calls made.
MaxProviderCalls == 3

SdkEnvironments == [account : {<<"111">>}, region : {<<"us-east-1">>, <<"eu-west-1">>}]
\* `${mode}` of Mode.ForWriting.
SdkModes == {<<"1">>}
\* `options`: undefined, or the role to assume.
SdkOptions ==
    {<<>>,
     <<[assumeRoleArn |-> <<"arn", ":", "role/deploy">>, assumeRoleExternalId |-> <<>>]>>}

\* options?.assumeRoleArn ?? ""  and  options?.assumeRoleExternalId ?? ""
assumeRoleArnOf(opts) == IF opts = <<>> THEN <<>> ELSE opts[1].assumeRoleArn
assumeRoleExternalIdOf(opts) == IF opts = <<>> THEN <<>> ELSE opts[1].assumeRoleExternalId

\* [account, region, `${mode}`, arn, externalId].join(":")
cacheKey(environment, mode, opts) ==
    join(<<environment.account, environment.region, mode,
           assumeRoleArnOf(opts), assumeRoleExternalIdOf(opts)>>, ":")

\* The SDK object the n-th sdkProvider.forEnvironment call resolves with.
SdkOf(n) == <<"sdk", n>>
NoSdk == <<>>

ProviderFailure == Error("AuthenticationError", <<"Could not assume role">>)

NoSdkCall ==
    [state |-> "idle", key |-> <<>>, call |-> 0, result |-> NoSdk, error |-> NoError]

\* this.sdkCache.get(cacheKey)
cacheGet(cache, key) == IF key \in DOMAIN cache THEN cache[key] ELSE NoSdk

\* cachedSdkForEnvironment is called: the cached SDK is returned, or the
\* provider is called.
CachedSdkForEnvironment(i, environment, mode, opts) ==
    /\ sdkCalls[i].state = "idle"
    /\ LET key == cacheKey(environment, mode, opts)
           existing == cacheGet(sdkCache, key)
       IN  IF existing # NoSdk
           THEN /\ sdkCalls' = [sdkCalls EXCEPT ![i] =
                        [NoSdkCall EXCEPT !.state = "resolved", !.key = key,
                                          !.result = existing]]
                /\ UNCHANGED providerCalls
           ELSE /\ Len(providerCalls) < MaxProviderCalls
                /\ providerCalls' = Append(providerCalls,
                                           [key |-> key, by |-> i, answer |-> Pending])
                /\ sdkCalls' = [sdkCalls EXCEPT ![i] =
                        [NoSdkCall EXCEPT !.state = "await", !.key = key,
                                          !.call = Len(providerCalls')]]
    /\ UNCHANGED sdkCache
    /\ UNCHANGED otherThanSdk

\* await this.sdkProvider.forEnvironment(...) resolves: the SDK is cached
\* and returned.
ProviderResolved(i) ==
    /\ sdkCalls[i].state = "await"
    /\ LET ret == SdkOf(sdkCalls[i].call)
       IN  /\ sdkCache' = spread(sdkCache, sdkCalls[i].key :> ret)
           /\ sdkCalls' = [sdkCalls EXCEPT ![i].state = "resolved", ![i].result = ret]
    /\ providerCalls' = [providerCalls EXCEPT ![sdkCalls[i].call].answer = Ok]
    /\ UNCHANGED otherThanSdk

\* await this.sdkProvider.forEnvironment(...) rejects: so does the call.
ProviderRejected(i) ==
    /\ sdkCalls[i].state = "await"
    /\ sdkCalls' = [sdkCalls EXCEPT ![i].state = "rejected", ![i].error = ProviderFailure]
    /\ providerCalls' = [providerCalls EXCEPT ![sdkCalls[i].call].answer = ProviderFailure]
    /\ UNCHANGED sdkCache
    /\ UNCHANGED otherThanSdk

\* The caller has its SDK or its error and may call again.
SdkCallDone(i) ==
    /\ sdkCalls[i].state \in {"resolved", "rejected"}
    /\ sdkCalls' = [sdkCalls EXCEPT ![i] = NoSdkCall]
    /\ UNCHANGED <<sdkCache, providerCalls>>
    /\ UNCHANGED otherThanSdk

InitSdkCache ==
    /\ sdkCache = <<>>
    /\ sdkCalls = [i \in SdkCallers |-> NoSdkCall]
    /\ providerCalls = <<>>

NextSdk ==
    \/ \E i \in SdkCallers, environment \in SdkEnvironments, mode \in SdkModes,
          opts \in SdkOptions : CachedSdkForEnvironment(i, environment, mode, opts)
    \/ \E i \in SdkCallers : ProviderResolved(i)
    \/ \E i \in SdkCallers : ProviderRejected(i)
    \/ \E i \in SdkCallers : SdkCallDone(i)

InitSdk ==
    InitConfigIdle /\ InitIssuerIdle /\ InitDeployIdle /\ InitSdkCache
        /\ InitStreamIdle /\ InitPothosIdle

SpecSdk == InitSdk /\ [][NextSdk]_vars

(***************************************************************************)
(* constructs: the KinesisStream construct (bind, attachPermissions,       *)
(* consumers).  A consumer function is modelled by the bind and            *)
(* attachPermissions calls it has received.                                *)
(***************************************************************************)
\* Number of calls made on the stream after its construction.
MaxStreamCalls == 3

ConsumerNames == {"consumer1", "consumer2"}
ConstructLists == {<<"bucket">>, <<"STRIPE_KEY", "table">>}
Permissions == {<<"s3">>, <<"dynamodb", "sns">>}

\* Fn.fromDefinition(scope, `Consumer_${id}_${consumerName}`, ...): a new function.
Fn(consumerName) == [id |-> <<"Consumer", "_", "Stream", "_", consumerName>>,
                     bound |-> <<>>, attached |-> <<>>]

\* fn.bind(constructs) and fn.attachPermissions(permissions)
fnBind(fn, constructs) == [fn EXCEPT !.bound = Append(@, constructs)]
fnAttachPermissions(fn, permissions) == [fn EXCEPT !.attached = Append(@, permissions)]

RECURSIVE attachAll(_, _)
\* this.permissionsAttachedForAllConsumers.forEach((p) => fn.attachPermissions(p))
attachAll(fn, permissionsList) ==
    IF permissionsList = <<>> THEN fn
    ELSE attachAll(fnAttachPermissions(fn, Head(permissionsList)), Tail(permissionsList))

\* Mutant: the constructs bound to all consumers are not remembered.
pushConstructsForgotten(list, constructs) == list

\* this.bindingForAllConsumers.push(...constructs)
pushConstructs(list, constructs) == list \o constructs

\* this.permissionsAttachedForAllConsumers.push(permissions)
pushPermissions(list, permissions) == Append(list, permissions)

\* addConsumer(scope, consumerName, consumer): the function is created and
\* registered, then given the permissions and the bindings of all consumers.
addConsumer(fns, consumerName, bindings, permissionsList) ==
    spread(fns, consumerName :> fnBind(attachAll(Fn(consumerName), permissionsList), bindings))

ConsumerNotFound(consumerName) ==
    Error("Error", <<"The \"", consumerName, "\" consumer was not found in the \"",
                     "Stream", "\" KinesisStream.">>)

StreamCall(op, consumerName, constructs, permissions, error) ==
    [op |-> op, consumerName |-> consumerName, constructs |-> constructs,
     permissions |-> permissions, error |-> error]

CanCall == Len(streamCalls) < MaxStreamCalls

\* stream.addConsumers(scope, {consumerName: ...})
AddConsumers(consumerName) ==
    /\ CanCall
    /\ functions' = addConsumer(functions, consumerName, bindingForAllConsumers,
                                permissionsAttachedForAllConsumers)
    /\ streamCalls' = Append(streamCalls, StreamCall("addConsumers", consumerName, <<>>, <<>>, NoError))
    /\ UNCHANGED <<bindingForAllConsumers, permissionsAttachedForAllConsumers>>
    /\ UNCHANGED otherThanStream

\* stream.bind(constructs)
Bind(constructs) ==
    /\ CanCall
    /\ functions' = [n \in DOMAIN functions |-> fnBind(functions[n], constructs)]
    /\ bindingForAllConsumers' = pushConstructs(bindingForAllConsumers, constructs)
    /\ streamCalls' = Append(streamCalls, StreamCall("bind", "", constructs, <<>>, NoError))
    /\ UNCHANGED permissionsAttachedForAllConsumers
    /\ UNCHANGED otherThanStream

\* stream.bindToConsumer(consumerName, constructs)
BindToConsumer(consumerName, constructs) ==
    /\ CanCall
    /\ IF consumerName \notin DOMAIN functions
       THEN /\ streamCalls' = Append(streamCalls,
                    StreamCall("bindToConsumer", consumerName, constructs, <<>>,
                               ConsumerNotFound(consumerName)))
            /\ UNCHANGED functions
       ELSE /\ functions' = [functions EXCEPT ![consumerName] = fnBind(@, constructs)]
            /\ streamCalls' = Append(streamCalls,
                    StreamCall("bindToConsumer", consumerName, constructs, <<>>, NoError))
    /\ UNCHANGED <<bindingForAllConsumers, permissionsAttachedForAllConsumers>>
    /\ UNCHANGED otherThanStream

\* stream.attachPermissions(permissions)
AttachPermissions(permissions) ==
    /\ CanCall
    /\ functions' = [n \in DOMAIN functions |-> fnAttachPermissions(functions[n], permissions)]
    /\ permissionsAttachedForAllConsumers' =
            pushPermissions(permissionsAttachedForAllConsumers, permissions)
    /\ streamCalls' = Append(streamCalls, StreamCall("attachPermissions", "", <<>>, permissions, NoError))
    /\ UNCHANGED bindingForAllConsumers
    /\ UNCHANGED otherThanStream

\* stream.attachPermissionsToConsumer(consumerName, permissions)
AttachPermissionsToConsumer(consumerName, permissions) ==
    /\ CanCall
    /\ IF consumerName \notin DOMAIN functions
       THEN /\ streamCalls' = Append(streamCalls,
                    StreamCall("attachPermissionsToConsumer", consumerName, <<>>, permissions,
                               ConsumerNotFound(consumerName)))
            /\ UNCHANGED functions
       ELSE /\ functions' = [functions EXCEPT ![consumerName] =
                                fnAttachPermissions(@, permissions)]
            /\ streamCalls' = Append(streamCalls,
                    StreamCall("attachPermissionsToConsumer", consumerName, <<>>, permissions,
                               NoError))
    /\ UNCHANGED <<bindingForAllConsumers, permissionsAttachedForAllConsumers>>
    /\ UNCHANGED otherThanStream

\* new KinesisStream(scope, "Stream", {consumers}): the fields are
\* initialised and the consumers of the props are added.
InitKinesisStream ==
    /\ \E fromProps \in {<<>>, <<"consumer1">>, <<"consumer1", "consumer2">>} :
        functions = IF fromProps = <<>> THEN <<>>
                    ELSE IF Len(fromProps) = 1
                         THEN addConsumer(<<>>, fromProps[1], <<>>, <<>>)
                         ELSE addConsumer(addConsumer(<<>>, fromProps[1], <<>>, <<>>),
                                          fromProps[2], <<>>, <<>>)
    /\ bindingForAllConsumers = <<>>
    /\ permissionsAttachedForAllConsumers = <<>>
    /\ streamCalls = <<>>

NextStream ==
    \/ \E consumerName \in ConsumerNames : AddConsumers(consumerName)
    \/ \E constructs \in ConstructLists : Bind(constructs)
    \/ \E consumerName \in ConsumerNames, constructs \in ConstructLists :
        BindToConsumer(consumerName, constructs)
    \/ \E permissions \in Permissions : AttachPermissions(permissions)
    \/ \E consumerName \in ConsumerNames, permissions \in Permissions :
        AttachPermissionsToConsumer(consumerName, permissions)

InitStream ==
    InitConfigIdle /\ InitIssuerIdle /\ InitDeployIdle /\ InitSdkIdle
        /\ InitKinesisStream /\ InitPothosIdle

SpecStream == InitStream /\ [][NextStream]_vars

(***************************************************************************)
(* cli/commands/plugins/pothos.js: usePothosBuilder and its two bus        *)
(* subscribers.  A path is the sequence of its segments; no schema is <<>>. *)
(***************************************************************************)
\* Number of events delivered to the subscribers.
MaxEvents == 4

Route(type, schema) == [type |-> type, schema |-> schema]
Api(apiRoutes) == [type |-> "Api", data |-> [routes |-> apiRoutes]]
OtherConstruct == [type |-> "Function", data |-> [routes |-> <<>>]]

SchemaA == <<"services", "a", "schema.ts">>
SchemaB == <<"services", "b", "schema.ts">>

\* evt.properties of `stacks.metadata`, as Object.values(...).flat() lists it.
MetadataPayloads ==
    {<<OtherConstruct>>,
     <<Api(<<Route("function", <<>>), Route("pothos", <<>>)>>)>>,
     <<Api(<<Route("pothos", SchemaA), Route("function", <<>>)>>), OtherConstruct,
       Api(<<Route("graphql", SchemaB)>>)>>,
     <<Api(<<Route("graphql", SchemaB)>>)>>}

\* evt.properties.file of `file.changed`.
ChangedFiles ==
    {<<"services", "a", "types", "user.ts">>, <<"services", "b", "schema.ts">>,
     <<"services", "a", "out.mjs">>, <<"stacks", "api.ts">>, <<"services", "a">>}

\* .flatMap((c) => c.data.routes)
RECURSIVE flatMapRoutes(_)
flatMapRoutes(constructs) ==
    IF constructs = <<>> THEN <<>>
    ELSE Head(constructs).data.routes \o flatMapRoutes(Tail(constructs))

\* The route list the metadata subscriber assigns to `routes`.
routesOf(properties) ==
    LET apis == SelectSeq(properties, LAMBDA c : c.type = "Api")
        typed == SelectSeq(flatMapRoutes(apis), LAMBDA r : r.type \in {"pothos", "graphql"})
    IN  SelectSeq(typed, LAMBDA r : r.schema # <<>>)

\* path.dirname(p)
dirname(p) == SubSeq(p, 1, Len(p) - 1)

\* Number of leading segments two paths share.
RECURSIVE common(_, _)
common(p, q) ==
    IF p = <<>> \/ q = <<>> \/ Head(p) # Head(q) THEN 0
    ELSE 1 + common(Tail(p), Tail(q))

\* path.relative(from, to)
relative(from, to) ==
    [n \in 1..(Len(from) - common(from, to)) |-> ".."]
        \o SubSeq(to, common(from, to) + 1, Len(to))

\* relative && !relative.startsWith("..") && !path.isAbsolute(relative)
isUnder(dir, file) ==
    LET rel == relative(dir, file)
    IN  rel # <<>> /\ Head(rel) # ".."

\* evt.properties.file.endsWith("out.mjs")
isOutput(file) == file # <<>> /\ file[Len(file)] = "out.mjs"

Build(route, event, topic) == [route |-> route, event |-> event, topic |-> topic]

\* Mutant: the one-time build is used up by the first event, routes or not.
firstAfterAnyEvent(wasFirst, list) == TRUE

\* `first` after the for loop of the metadata subscriber.
firstAfter(wasFirst, list) == wasFirst \/ list # <<>>

\* bus delivers `stacks.metadata`: routes is replaced, and unless a build
\* was triggered by an earlier event, every route is built.
StacksMetadata(properties) ==
    /\ Len(busEvents) < MaxEvents
    /\ busEvents' = Append(busEvents, [topic |-> "stacks.metadata", properties |-> properties,
                                        file |-> <<>>])
    /\ routes' = routesOf(properties)
    /\ IF first
       THEN UNCHANGED <<first, builds>>
       ELSE /\ builds' = builds \o [n \in 1..Len(routes') |->
                                      Build(routes'[n], Len(busEvents'), "stacks.metadata")]
            /\ first' = firstAfter(first, routes')
    /\ UNCHANGED otherThanPothos

\* bus delivers `file.changed`: every route whose schema directory holds the
\* file is built, unless the file is an output file.
FileChanged(file) ==
    /\ Len(busEvents) < MaxEvents
    /\ busEvents' = Append(busEvents, [topic |-> "file.changed", properties |-> <<>>,
                                        file |-> file])
    /\ builds' = IF isOutput(file) THEN builds
                 ELSE LET hit == SelectSeq(routes, LAMBDA r : isUnder(dirname(r.schema), file))
                      IN  builds \o [n \in 1..Len(hit) |->
                                        Build(hit[n], Len(busEvents'), "file.changed")]
    /\ UNCHANGED <<routes, first>>
    /\ UNCHANGED otherThanPothos

InitPothosBuilder ==
    /\ routes = <<>>
    /\ first = FALSE
    /\ builds = <<>>
    /\ busEvents = <<>>

NextPothos ==
    \/ \E properties \in MetadataPayloads : StacksMetadata(properties)
    \/ \E file \in ChangedFiles : FileChanged(file)

InitPothos ==
    InitConfigIdle /\ InitIssuerIdle /\ InitDeployIdle /\ InitSdkIdle
        /\ InitStreamIdle /\ InitPothosBuilder

SpecPothos == InitPothos /\ [][NextPothos]_vars

(***************************************************************************)
(* Properties of the parameter store operations.                           *)
(***************************************************************************)
Stored(prefix) == {n \in Names : Exists(store, n) /\ startsWith(n, prefix)}

SecretType == <<"Secret">>

\* C1: Config.parameters() never returns an entry whose parsed type is
\* "Secret", whatever the store holds, entries written by setSecret included.
C1_SecretExclusion ==
    pc \in {"listed", "env"} =>
        \A i \in 1..Len(listed) : listed[i].type # SecretType

\* The setSecret call in progress has returned or raised.
Finished == pc \in {"returned", "raised"}

\* The first put was answered with the downgrade conflict and every later
\* SSM command of the call was answered Ok.
DowngradeThenSuccess ==
    /\ Len(ssmCalls) >= 1
    /\ ssmCalls[1].answer = DowngradeConflict
    /\ \A i \in 2..Len(ssmCalls) : ssmCalls[i].answer = Ok

\* One delete of the path followed by one further put of the same value,
\* and the path holds the value.
RecoveredByDeleteAndPut ==
    /\ Len(ssmCalls) = 3
    /\ ssmCalls[1].command = putParameter(paramName, input.value)
    /\ ssmCalls[2].command = deleteParameter(paramName)
    /\ ssmCalls[3].command = putParameter(paramName, input.value)
    /\ store[paramName].Value = input.value

\* C4 as stated: after a downgrade conflict on the first put and a store that
\* then succeeds, setSecret deletes once, puts once more, holds the new value
\* and does not raise to the caller.
C4_DowngradeRecoveryNeverRaises ==
    (Finished /\ DowngradeThenSuccess) =>
        (RecoveredByDeleteAndPut /\ pc = "returned")

\* C4 amended: after a downgrade conflict on the first put and a store that
\* then succeeds, setSecret deletes once, puts once more and the path holds the
\* new value; it raises no store error, the only error it can still raise is
\* the failure of the event publish.
C4_DowngradeRecovery ==
    (Finished /\ DowngradeThenSuccess) =>
        /\ RecoveredByDeleteAndPut
        /\ pc = "raised" => err = IotFailure

C4_Witness ==
    /\ pc = "returned"
    /\ DowngradeThenSuccess
    /\ RecoveredByDeleteAndPut
    /\ input.value.length <= TierThreshold

\* The non-secret parameter triples stored under both prefixes / under the
\* fallback prefix: the part of the name after the prefix.
Suffix(n, prefix) == substring(n, Len(prefix))

NonSecret(n, prefix) == parse(n, prefix).type \notin {SecretType, <<"secrets">>}

EnvName(n, prefix) == envFor(parse(n, prefix))

NameClash(n, prefix) ==
    \E o \in Stored(PREFIX_FALLBACK) \cup Stored(PREFIX_STAGE) :
        LET oprefix == IF startsWith(o, PREFIX_FALLBACK)
                       THEN PREFIX_FALLBACK ELSE PREFIX_STAGE
        IN  /\ Suffix(o, oprefix) # Suffix(n, prefix)
            /\ ~IsSkippedType(parse(o, oprefix).type)
            /\ EnvName(o, oprefix) = EnvName(n, prefix)

C10_OtherPutFailurePropagates ==
    \A i \in 1..Len(ssmCalls) :
        (/\ ssmCalls[i].command.cmd = "PutParameter"
         /\ ssmCalls[i].answer # Ok
         /\ ssmCalls[i].answer # DowngradeConflict) =>
            /\ i = Len(ssmCalls)
            /\ pc = "raised"
            /\ err = ssmCalls[i].answer
            /\ events = <<>>

C10_Witness ==
    /\ pc = "raised"
    /\ Len(ssmCalls) = 1
    /\ ssmCalls[1].command.cmd = "PutParameter"
    /\ err.name = "ValidationException"
    /\ err # DowngradeConflict
    /\ events = <<>>

LastCall == ssmCalls[Len(ssmCalls)]

\* C11: when setSecret has returned, exactly one event has been published,
\* it is "config.secret.updated" with payload {name: key} on the topic
\* {prefix}/events, the last command sent to the store before it was the put
\* of the value answered with success, and no Lambda command was sent; no
\* event exists before setSecret has returned.
C11_PublishAfterStore ==
    /\ pc = "returned" =>
        /\ events = <<[topic |-> <<"iot.prefix", "/", "events">>,
                       type |-> "config.secret.updated",
                       properties |-> [name |-> input.key]]>>
        /\ Len(ssmCalls) >= 1
        /\ LastCall.command.cmd = "PutParameter"
        /\ LastCall.command.Name = paramName
        /\ LastCall.command.Value = input.value
        /\ LastCall.answer = Ok
        /\ lambdaCalls = <<>>
        /\ rfLog = <<>>
    /\ events # <<>> => pc = "returned"

\* setSecret of a key with a dash returned after the downgrade recovery.
C11_Witness ==
    /\ pc = "returned"
    /\ input.key = <<"my", "-", "key">>
    /\ Len(ssmCalls) = 3
    /\ Len(events) = 1

PutCalls == {i \in 1..Len(ssmCalls) : ssmCalls[i].command.cmd = "PutParameter"}

\* C12: every put sent to the store, the retry put of the downgrade recovery
\* included, selects the Standard tier for a value of length at most 4096
\* and the Advanced tier for a value of length at least 4097.
C12_TierSelection ==
    \A i \in PutCalls :
        LET c == ssmCalls[i].command
        IN  /\ c.Value.length <= 4096 => c.Tier = "Standard"
            /\ c.Value.length >= 4097 => c.Tier = "Advanced"

\* The retry put of a recovery sent a value of length 4096 as Standard, over
\* a parameter that held a value of length 4097 as Advanced.
C12_Witness ==
    /\ Len(ssmCalls) = 3
    /\ ssmCalls[1].answer = DowngradeConflict
    /\ ssmCalls[3].command.cmd = "PutParameter"
    /\ ssmCalls[3].command.Value.length = 4096
    /\ ssmCalls[3].command.Tier = "Standard"
    /\ \E n \in SecretNames :
        /\ Exists(store, n)
        /\ store[n].Value.length = 4097
        /\ store[n].Tier = "Advanced"

\* C16: removeSecret called for a key whose secret-value path is absent,
\* with the store answering (no throttling, no invalid request), returns
\* without an error and leaves the store as it was.
C16_RemoveAbsentIsSilent ==
    [][(/\ pc = "remove"
        /\ ~Exists(store, paramName)
        /\ ssmCalls'[Len(ssmCalls')].answer \notin SsmFailures)
       => (pc' = "removed" /\ store' = store)]_vars

SecretIds == {normalizeID(k) : k \in SecretKeys}
StageSecret(id) == PREFIX_STAGE \o <<"Secret", "/">> \o id \o <<"/", "value">>
FallbackSecret(id) == PREFIX_FALLBACK \o <<"Secret", "/">> \o id \o <<"/", "value">>

\* C17: the map Config.secrets() returns has an entry for an id exactly when
\* the store holds the Secret parameter of that id under the STAGE or the
\* FALLBACK prefix; the entry has `value` exactly when the STAGE one is
\* stored, equal to its value, and `fallback` exactly when the FALLBACK one
\* is stored, equal to its value.
C17_SecretsMap ==
    pc = "secrets" =>
        /\ DOMAIN secretsOut =
                {id \in SecretIds : Exists(store, StageSecret(id))
                                    \/ Exists(store, FallbackSecret(id))}
        /\ \A id \in DOMAIN secretsOut :
            /\ DOMAIN secretsOut[id] \subseteq {"value", "fallback"}
            /\ "value" \in DOMAIN secretsOut[id] <=> Exists(store, StageSecret(id))
            /\ "fallback" \in DOMAIN secretsOut[id] <=> Exists(store, FallbackSecret(id))
            /\ Exists(store, StageSecret(id)) =>
                    secretsOut[id].value = store[StageSecret(id)].Value
            /\ Exists(store, FallbackSecret(id)) =>
                    secretsOut[id].fallback = store[FallbackSecret(id)].Value

\* secrets() returned with a secret set only in the fallback tier, a secret
\* set in both tiers with different values, and the legacy entry stored.
C17_Witness ==
    /\ pc = "secrets"
    /\ DOMAIN secretsOut = {<<"k">>, <<"my", "_", "key">>}
    /\ DOMAIN secretsOut[<<"k">>] = {"fallback"}
    /\ DOMAIN secretsOut[<<"my", "_", "key">>] = {"value", "fallback"}
    /\ secretsOut[<<"my", "_", "key">>].value # secretsOut[<<"my", "_", "key">>].fallback
    /\ Exists(store, LegacySecret)

(***************************************************************************)
(* Properties of Config.restart.                                           *)
(***************************************************************************)
Constructs == Range(flat(metadata))
AllTasks == Range(siteTasks) \cup Range(fnTasks)
Buckets == {"edgeSites", "sites", "placeholderSites", "functions",
            "sitesWithPrefetch", "functionsWithPrefetch"}
RestartedBuckets == {"sites", "functions"}

Matches(c) == keys \cap c.data.secrets # {}
SupportedSite(c) == c.type \in SiteTypes

\* A plain function: a Function that is not the server of a site the restart
\* handles (a site of a supported kind whose secrets intersect the keys).
HandledSiteServers == {c.data.server : c \in {d \in Constructs : SupportedSite(d) /\ Matches(d)}}
PlainFunction(c) == c.type = "Function" /\ c.data.arn \notin HandledSiteServers

\* The report bucket a construct belongs to by its category, or "none".
CategoryOf(c) ==
    IF SupportedSite(c) /\ Matches(c)
    THEN IF c.data.mode = "placeholder" THEN "placeholderSites"
         ELSE IF c.data.prefetchSecrets THEN "sitesWithPrefetch"
         ELSE IF c.data.edge THEN "edgeSites"
         ELSE "sites"
    ELSE IF PlainFunction(c) /\ Matches(c)
    THEN IF c.data.prefetchSecrets THEN "functionsWithPrefetch" ELSE "functions"
    ELSE "none"

Eligible(c) == CategoryOf(c) \in RestartedBuckets
InBucket(c, b) == c \in Range(report[b])
Occurrences(c, b) == Cardinality({i \in 1..Len(report[b]) : report[b][i] = c})

\* Both Lambda calls for the construct were answered Ok.
Restarted(c) ==
    \E t \in AllTasks : t.c = c /\ t.state = "fulfilled" /\ t.caught = NoError
Attempted(c) ==
    \E t \in AllTasks :
        /\ t.c = c
        /\ \E i \in 1..Len(lambdaCalls) : lambdaCalls[i] = GetFunctionConfiguration(t.arn)
Benign(e) ==
    e.name = "ResourceNotFoundException" /\ startsWith(e.message, <<"Function not found">>)
Failed(t) == t.caught # NoError

\* No construct is in a bucket other than its category's, or twice in one.
BucketsSound ==
    \A c \in Constructs : \A b \in Buckets :
        /\ InBucket(c, b) => b = CategoryOf(c)
        /\ Occurrences(c, b) <= 1

\* C2 as stated: every matching site of a supported kind and every matching
\* plain function is in exactly one bucket of the report, the one of its
\* category, and only regional sites and non-prefetch functions are in the
\* restarted buckets.
C2_ExactlyOneBucket ==
    rpc = "resolved" =>
        /\ BucketsSound
        /\ \A c \in Constructs :
            CategoryOf(c) # "none" => InBucket(c, CategoryOf(c))

\* C2 amended: every such resource is in no bucket but its category's;
\* placeholder, prefetch and edge sites and prefetch functions are always in
\* theirs; a regional site or non-prefetch function is in its restarted
\* bucket exactly when both of its Lambda calls succeeded, and in no bucket
\* otherwise.
C2_Classification ==
    rpc = "resolved" =>
        /\ BucketsSound
        /\ \A c \in Constructs :
            CategoryOf(c) # "none" =>
                (InBucket(c, CategoryOf(c)) <=> (~Eligible(c) \/ Restarted(c)))

C2_Witness ==
    /\ rpc = "resolved"
    /\ \E c \in Constructs : CategoryOf(c) = "edgeSites" /\ InBucket(c, "edgeSites")
    /\ \E c \in Constructs : CategoryOf(c) = "sites" /\ InBucket(c, "sites")
    /\ \E c \in Constructs : CategoryOf(c) = "functionsWithPrefetch"
                                /\ InBucket(c, "functionsWithPrefetch")
    /\ \E c \in Constructs : CategoryOf(c) = "functions" /\ ~InBucket(c, "functions")

NotInFunctionPath(c) ==
    /\ ~InBucket(c, "functions")
    /\ ~InBucket(c, "functionsWithPrefetch")
    /\ \A i \in 1..Len(fnTasks) : fnTasks[i].c # c

\* C3 as stated: a Function whose arn is the server of any site in the
\* snapshot is in neither function bucket and is not restarted as a function.
C3_NoFunctionForAnySiteServer ==
    \A c \in Constructs :
        (/\ c.type = "Function"
         /\ \E s \in Constructs : SupportedSite(s) /\ s.data.server = c.data.arn)
            => NotInFunctionPath(c)

\* C3 amended: a Function whose arn is the server of a site of a supported
\* kind whose secrets intersect the keys is in neither function bucket and is
\* not restarted as a function.
C3_NoFunctionForHandledSiteServer ==
    \A c \in Constructs :
        (/\ c.type = "Function"
         /\ \E s \in Constructs :
                SupportedSite(s) /\ Matches(s) /\ s.data.server = c.data.arn)
            => NotInFunctionPath(c)

C3_Witness ==
    /\ rpc = "resolved"
    /\ \E c \in Constructs :
        /\ c.type = "Function" /\ Matches(c) /\ ~c.data.prefetchSecrets
        /\ \E s \in Constructs :
                SupportedSite(s) /\ Matches(s) /\ s.data.server = c.data.arn
        /\ NotInFunctionPath(c)
    /\ Len(report.functions) >= 1

\* C5: a failure of a Lambda call other than the benign not-found makes
\* restart reject: restart never resolves after such a failure.
C5_OtherFailurePropagates ==
    rpc = "resolved" => \A t \in AllTasks : Failed(t) => Benign(t.caught)

\* C6: a resource the Lambda API reports as not found is left out of the
\* restarted buckets, restart does not reject for it, and every other
\* eligible resource is attempted and, when its own calls succeed, reported.
C6_BenignNotFound ==
    /\ rpc = "rejected" => ~Benign(restartErr)
    /\ \A t \in AllTasks :
        (Failed(t) /\ Benign(t.caught)) =>
            /\ t.state = "fulfilled"
            /\ rpc = "resolved" =>
                /\ \A b \in RestartedBuckets : ~InBucket(t.c, b)
                /\ \A c \in Constructs :
                    (Eligible(c) /\ c # t.c) =>
                        /\ Attempted(c)
                        /\ Restarted(c) => InBucket(c, CategoryOf(c))

C6_Witness ==
    /\ rpc = "resolved"
    /\ \E i \in 1..Len(siteTasks) : Benign(siteTasks[i].caught)
    /\ \E i \in 1..Len(fnTasks) :
        /\ Restarted(fnTasks[i].c)
        /\ InBucket(fnTasks[i].c, "functions")

Settled(t) == t.state \in {"fulfilled", "rejected"}

\* C8: a failed restart attempt does not make restart reject, the report is
\* produced only when every attempt of both phases has settled, every
\* eligible resource has been attempted by then, and the ones whose own calls
\* succeeded are reported whatever happened to the others.
C8_BestEffortFanOut ==
    /\ (\E t \in AllTasks : Failed(t)) => rpc # "rejected"
    /\ rpc = "resolved" =>
        /\ \A t \in AllTasks : Settled(t)
        /\ \A c \in Constructs :
            Eligible(c) => (Attempted(c) /\ (Restarted(c) => InBucket(c, CategoryOf(c))))

C8_Witness ==
    /\ rpc = "resolved"
    /\ \E i \in 1..Len(siteTasks) : Failed(siteTasks[i]) /\ ~Benign(siteTasks[i].caught)
    /\ \E i, j \in 1..Len(fnTasks) :
        /\ Failed(fnTasks[i])
        /\ Restarted(fnTasks[j].c)
        /\ InBucket(fnTasks[j].c, "functions")

EligibleIds ==
    {c.data.server : c \in {d \in Constructs : CategoryOf(d) = "sites"}}
        \cup {c.data.arn : c \in {d \in Constructs : CategoryOf(d) = "functions"}}

Calls(cmd, arn) ==
    Cardinality({i \in 1..Len(lambdaCalls) :
                    lambdaCalls[i].cmd = cmd /\ lambdaCalls[i].FunctionName = arn})

\* C9: Lambda calls go only to the servers of regional sites and the arns of
\* non-prefetch plain functions whose secrets intersect the keys; an update
\* follows a get of the same identifier; when restart returns, each of these
\* identifiers has received exactly one get and at most one update, and no
\* construct of another category has a restart attempt.
C9_RestartTargets ==
    /\ \A i \in 1..Len(lambdaCalls) :
        /\ lambdaCalls[i].FunctionName \in EligibleIds
        /\ lambdaCalls[i].cmd = "UpdateFunctionConfiguration" =>
            \E j \in 1..(i - 1) :
                lambdaCalls[j] = GetFunctionConfiguration(lambdaCalls[i].FunctionName)
    /\ \A t \in AllTasks : Eligible(t.c)
    /\ rpc = "resolved" =>
        \A arn \in EligibleIds :
            /\ Calls("GetFunctionConfiguration", arn) = 1
            /\ Calls("UpdateFunctionConfiguration", arn) <= 1

C9_Witness ==
    /\ rpc = "resolved"
    /\ \E c \in Constructs : CategoryOf(c) = "edgeSites"
    /\ \E c \in Constructs : CategoryOf(c) = "functionsWithPrefetch"
    /\ Calls("UpdateFunctionConfiguration", ServerB) = 1
    /\ Calls("GetFunctionConfiguration", ServerA) = 0

(***************************************************************************)
(* Properties of restartFunction.                                          *)
(***************************************************************************)
TimestampOf(e) == e.Variables[SECRET_UPDATED_AT_ENV]

\* The variables of an environment; none when the function has no environment.
VariablesIn(e) == IF "Variables" \in DOMAIN e THEN e.Variables ELSE <<>>

\* Caller j called restartFunction after the call of caller i had settled.
InSuccession(i, j) == i # j /\ SettledState(rfTasks[j].task) /\ i \in rfTasks[j].after

\* Every Lambda command of caller i was answered, and answered with success:
\* the function existed and the API served the call.
Served(i) ==
    /\ SettledState(rfTasks[i].task)
    /\ \A n \in 1..Len(rfLog) : rfLog[n].caller = i => rfLog[n].answer = Ok

ReturnedTrue(i) ==
    /\ rfTasks[i].task.state = "fulfilled"
    /\ rfTasks[i].task.value = TRUE
    /\ rfTasks[i].task.error = NoError

\* C13 as stated: two calls in succession on the existing function both
\* return true, and the timestamp entry left by the first differs from the
\* one left by the second.
C13_TwoDifferentStamps ==
    \A i \in Callers, j \in Callers :
        InSuccession(i, j) /\ Served(i) /\ Served(j) =>
            /\ ReturnedTrue(i) /\ ReturnedTrue(j)
            /\ TimestampOf(rfTasks[i].left) # TimestampOf(rfTasks[j].left)

\* C13, amended: two calls in succession on the existing function both
\* return true, each leaves as timestamp entry the string of the Date.now()
\* it read, and the two entries differ when the two readings differ.
C13_StampPerClockReading ==
    \A i \in Callers, j \in Callers :
        InSuccession(i, j) /\ Served(i) /\ Served(j) =>
            /\ ReturnedTrue(i) /\ ReturnedTrue(j)
            /\ TimestampOf(rfTasks[i].left) = ToString(rfTasks[i].now)
            /\ TimestampOf(rfTasks[j].left) = ToString(rfTasks[j].now)
            /\ rfTasks[i].now # rfTasks[j].now =>
                    TimestampOf(rfTasks[i].left) # TimestampOf(rfTasks[j].left)

\* Two served calls in succession, the second one a millisecond later.
C13_Witness ==
    /\ InSuccession(1, 2) /\ Served(1) /\ Served(2)
    /\ rfTasks[1].now = 1
    /\ rfTasks[2].now = 2
    /\ TimestampOf(fnEnv) = ToString(2)

\* The calls of the two callers overlapped: neither began after the other
\* had settled.
Concurrent == rfTasks[1].after = {} /\ rfTasks[2].after = {}

\* No client other than the two restarts wrote the function's configuration.
OnlyRestarts == \A n \in 1..Len(rfLog) : rfLog[n].caller \in Callers

\* What the first get answered read: the variables before any write.
OriginalVariables == VariablesIn(rfLog[1].response.Environment)

\* C14: when the calls of two callers overlap, however their gets and
\* updates interleave, and all are served, both return true and the
\* function ends with the original variables, each with its original value,
\* plus the timestamp entry, written by one of the two, and nothing else.
C14_ConcurrentRestartsKeepVariables ==
    Concurrent /\ Served(1) /\ Served(2) /\ OnlyRestarts =>
        /\ ReturnedTrue(1) /\ ReturnedTrue(2)
        /\ DOMAIN fnEnv.Variables = DOMAIN OriginalVariables \cup {SECRET_UPDATED_AT_ENV}
        /\ \A k \in DOMAIN OriginalVariables \ {SECRET_UPDATED_AT_ENV} :
                fnEnv.Variables[k] = OriginalVariables[k]
        /\ TimestampOf(fnEnv) \in {ToString(rfTasks[1].now), ToString(rfTasks[2].now)}

\* Both gets were answered before either update, and the update of the
\* caller whose get came first was applied last.
C14_Witness ==
    /\ Concurrent /\ Served(1) /\ Served(2) /\ OnlyRestarts
    /\ Len(rfLog) = 4
    /\ rfLog[1].caller = 1 /\ rfLog[2].caller = 2
    /\ rfLog[3].caller = 2 /\ rfLog[4].caller = 1
    /\ "FOO" \in DOMAIN OriginalVariables
    /\ rfTasks[1].now # rfTasks[2].now

\* The update of caller i has been sent.
UpdateSent(i) ==
    \/ rfTasks[i].task.state = "update"
    \/ \E n \in 1..Len(rfLog) :
        rfLog[n].caller = i /\ rfLog[n].command.cmd = "UpdateFunctionConfiguration"

\* C15: the variables of every update sent are the variables of the
\* configuration its call read, with the entry SST_ADMIN_SECRET_UPDATED_AT
\* added or overwritten: same keys apart from that one, same value for each
\* other key.
C15_WriteBackFrame ==
    \A i \in Callers :
        UpdateSent(i) =>
            LET read == VariablesIn(rfTasks[i].config.Environment)
                written == rfTasks[i].sent.Environment.Variables
            IN  /\ rfTasks[i].sent.cmd = "UpdateFunctionConfiguration"
                /\ rfTasks[i].sent.FunctionName = TheFunction
                /\ DOMAIN written = DOMAIN read \cup {SECRET_UPDATED_AT_ENV}
                /\ \A k \in DOMAIN read \ {SECRET_UPDATED_AT_ENV} : written[k] = read[k]

\* An update was sent that overwrote the timestamp entry of an earlier
\* restart and kept the other variable.
C15_Witness ==
    \E i \in Callers :
        /\ UpdateSent(i)
        /\ DOMAIN VariablesIn(rfTasks[i].config.Environment) = {"FOO", SECRET_UPDATED_AT_ENV}
        /\ TimestampOf(rfTasks[i].config.Environment) = ToString(0)
        /\ rfTasks[i].sent.Environment.Variables[SECRET_UPDATED_AT_ENV] = ToString(2)

(***************************************************************************)
(* Properties of scanParameters.                                           *)
(***************************************************************************)
RECURSIVE Concat(_)
Concat(lists) == IF lists = <<>> THEN <<>> ELSE Head(lists) \o Concat(Tail(lists))

RecordsOf(page) == IF "Parameters" \in DOMAIN page THEN page.Parameters ELSE <<>>
HasToken(page) == page.NextToken \notin {<<>>, <<"">>}

\* C18: the first request of a scan carries no token and each later request
\* carries the token of the page before it; what has been yielded is the
\* records of the pages received, page after page, each once; the scan has
\* ended exactly when the last page received has no token, every page
\* before it had one, and no request was sent after it.
C18_Pagination ==
    /\ Len(requests) >= 1 => requests[1].NextToken = <<>>
    /\ \A n \in 2..Len(requests) :
        /\ HasToken(pages[n - 1])
        /\ requests[n].NextToken = pages[n - 1].NextToken
        /\ requests[n].Path = requests[1].Path
    /\ yielded = Concat([n \in 1..Len(pages) |-> RecordsOf(pages[n])])
    /\ scanPc = "done" <=>
            /\ Len(pages) >= 1
            /\ ~HasToken(pages[Len(pages)])
            /\ Len(requests) = Len(pages)
    /\ scanPc = "await" => Len(requests) = Len(pages) + 1

\* A scan ended after three pages, the second without the field Parameters,
\* the tokens t1 and t2 having been passed on.
C18_Witness ==
    /\ scanPc = "done"
    /\ Len(pages) = 3
    /\ requests[2].NextToken = <<"t1">>
    /\ requests[3].NextToken = <<"t2">>
    /\ "Parameters" \notin DOMAIN pages[2]
    /\ Len(yielded) = 3

(***************************************************************************)
(* Properties of pathFor and normalizeID.                                  *)
(***************************************************************************)
\* The id with an underscore wherever it has a dash.
Underscored(id) ==
    [i \in 1..Len(id) |-> CASE id[i] = "-" -> "_" [] OTHER -> id[i]]

\* C19: every call of pathFor on the same (type, id, prop, fallback) returns
\* the same path, and the paths for fallback = true and fallback = false
\* are the FALLBACK prefix and the STAGE prefix followed by one and the same
\* suffix, type/normalizedId/prop.
C19_PathDeterminism ==
    LET suffix == pureInput.type \o <<"/">> \o Underscored(pureInput.id)
                    \o <<"/">> \o pureInput.prop
    IN  /\ \A fallback \in BOOLEAN :
            \A m \in 1..Len(pathOut[fallback]), n \in 1..Len(pathOut[fallback]) :
                pathOut[fallback][m] = pathOut[fallback][n]
        /\ \A n \in 1..Len(pathOut[TRUE]) :
            pathOut[TRUE][n] = <<"/", "sst", "/", "app", "/", ".fallback", "/">> \o suffix
        /\ \A n \in 1..Len(pathOut[FALSE]) :
            pathOut[FALSE][n] = <<"/", "sst", "/", "app", "/", "dev", "/">> \o suffix

\* pathFor was called twice with each flag on an id with dashes.
C19_Witness ==
    /\ pureInput.id = <<"my", "-", "secret", "-", "key">>
    /\ Len(pathOut[TRUE]) = 2
    /\ Len(pathOut[FALSE]) = 2
    /\ pathOut[TRUE][1] # pathOut[FALSE][1]

\* C20: normalizeID returns the id with every "-" replaced by "_" and
\* everything else kept ("my-secret-key" gives "my_secret_key"), and
\* applied to its own result it returns that result.
C20_NormalizeID ==
    /\ Len(normOut) >= 1 =>
        /\ Len(normOut[1]) = Len(pureInput.id)
        /\ \A i \in 1..Len(pureInput.id) :
            /\ pureInput.id[i] = "-" => normOut[1][i] = "_"
            /\ pureInput.id[i] # "-" => normOut[1][i] = pureInput.id[i]
        /\ pureInput.id = <<"my", "-", "secret", "-", "key">> =>
                normOut[1] = <<"my", "_", "secret", "_", "key">>
    /\ Len(normOut) >= 2 => normOut[2] = normOut[1]

\* normalizeID was applied twice, starting from "my-secret-key".
C20_Witness ==
    /\ pureInput.id = <<"my", "-", "secret", "-", "key">>
    /\ Len(normOut) = 2
    /\ normOut[1] # pureInput.id

(***************************************************************************)
(* Properties of the lazy Google issuer.                                   *)
(***************************************************************************)
\* C21: as long as no discovery has failed, Issuer.discover has been called
\* at most once, however many property accesses were made and however they
\* interleaved.
C21_DiscoverAtMostOnce ==
    (\A n \in 1..Len(discoverCalls) : discoverCalls[n].answer # DiscoverFailure)
        => Len(discoverCalls) <= 1

(***************************************************************************)
(* Properties of Deployments.deployStack.                                  *)
(***************************************************************************)
MethodGiven == options.deploymentMethod # <<>>
\* A change set name (an empty name is none) or a defined execute is given.
ChangeSetGiven == options.changeSetName \notin {<<>>, <<"">>} \/ options.execute # <<>>

DeployStackSteps == {n \in 1..Len(deploySteps) : deploySteps[n].step = "deployStack"}

\* C22: called with deploymentMethod together with changeSetName or a
\* defined execute, deployStack rejects with the error "You cannot supply
\* both 'deploymentMethod' and 'changeSetName/execute'" and has called no
\* collaborator; called with changeSetName/execute only, the deployment
\* method it passes to the underlying deployStack is
\* {method: "change-set", changeSetName, execute}.
C22_ConflictingMethodRejected ==
    dpc # "idle" =>
        /\ MethodGiven /\ ChangeSetGiven =>
            /\ dpc = "rejected"
            /\ deployErr.name = "Error"
            /\ Head(deployErr.message) =
                   "You cannot supply both 'deploymentMethod' and 'changeSetName/execute'"
            /\ deploySteps = <<>>
        /\ ~MethodGiven /\ ChangeSetGiven =>
            \A n \in DeployStackSteps :
                deploySteps[n].deploymentMethod =
                    <<[method |-> "change-set", changeSetName |-> options.changeSetName,
                       execute |-> options.execute]>>

\* A call with a direct deployment method and execute: false was rejected.
C22_Witness ==
    /\ dpc = "rejected"
    /\ options.deploymentMethod = <<DirectMethod>>
    /\ options.changeSetName = <<>>
    /\ options.execute = <<FALSE>>
    /\ deployErr = BothSupplied

\* The asset manifests among the dependencies, in the order of the list.
Manifests ==
    LET assets == SelectSeq(options.dependencies, LAMBDA d : d.kind = "cdk:asset-manifest")
    IN  [n \in 1..Len(assets) |-> assets[n].file]

ExpectedSteps ==
    <<"prepareSdkFor", "validateVersion">>
        \o [n \in 1..Len(Manifests) |-> "publishAssets"] \o <<"deployStack">>

\* C23: the collaborators are called in the order SDK preparation, bootstrap
\* version validation, one publish per asset manifest in the order of the
\* dependency list, underlying deployStack; each is called only after the
\* one before it has succeeded, so the underlying deployStack is called
\* only after every manifest is published and never after a failure.
C23_StrictOrder ==
    /\ Len(deploySteps) <= Len(ExpectedSteps)
    /\ \A n \in 1..Len(deploySteps) :
        /\ deploySteps[n].step = ExpectedSteps[n]
        /\ n > 1 => deploySteps[n - 1].answer = Ok
        /\ deploySteps[n].step = "publishAssets" => deploySteps[n].asset = Manifests[n - 2]
    /\ (\E n \in 1..Len(deploySteps) :
            /\ deploySteps[n].step # "deployStack"
            /\ deploySteps[n].answer \notin {Ok, Pending})
        => /\ DeployStackSteps = {}
           /\ dpc = "rejected"

\* The underlying deployStack was called after two manifests were
\* published, the list having another artifact between them.
C23_Witness ==
    /\ dpc = "resolved"
    /\ Len(deploySteps) = 5
    /\ deploySteps[3].asset = "b.assets.json"
    /\ deploySteps[4].asset = "a.assets.json"

(***************************************************************************)
(* Properties of Deployments.cachedSdkForEnvironment.                      *)
(***************************************************************************)
ProviderCallsFor(key) == {n \in 1..Len(providerCalls) : providerCalls[n].key = key}

\* C24: as long as no provider call has failed, sdkProvider.forEnvironment
\* has been called at most once for each cache key, overlapping calls
\* included, and the calls in progress that resolved for the same key
\* returned the same SDK object; after a failed provider call with no other
\* call for the key, the cache has no entry for that key.
C24_ProviderCalledOncePerKey ==
    /\ (\A n \in 1..Len(providerCalls) : providerCalls[n].answer # ProviderFailure) =>
        /\ \A n \in 1..Len(providerCalls) :
            Cardinality(ProviderCallsFor(providerCalls[n].key)) <= 1
        /\ \A i \in SdkCallers, j \in SdkCallers :
            /\ sdkCalls[i].state = "resolved"
            /\ sdkCalls[j].state = "resolved"
            /\ sdkCalls[i].key = sdkCalls[j].key
            => sdkCalls[i].result = sdkCalls[j].result
    /\ \A n \in 1..Len(providerCalls) :
        /\ providerCalls[n].answer = ProviderFailure
        /\ ProviderCallsFor(providerCalls[n].key) = {n}
        => providerCalls[n].key \notin DOMAIN sdkCache

(***************************************************************************)
(* Properties of the KinesisStream construct.                              *)
(***************************************************************************)
\* The constructs and the permissions values a function has received.
BoundTo(fn) == UNION {Range(fn.bound[n]) : n \in 1..Len(fn.bound)}
AttachedTo(fn) == Range(fn.attached)

CallsOf(op) == {n \in 1..Len(streamCalls) : streamCalls[n].op = op}

\* C25, the state of the consumers: the function registered under each
\* consumer name has received every construct of every list passed to
\* bind() and every permissions value passed to attachPermissions(), whether
\* it was added before or after those calls.
ConsumersHaveAll ==
    \A name \in DOMAIN functions :
        /\ \A n \in CallsOf("bind") :
            Range(streamCalls[n].constructs) \subseteq BoundTo(functions[name])
        /\ \A n \in CallsOf("attachPermissions") :
            streamCalls[n].permissions \in AttachedTo(functions[name])

\* C25, the calls naming a consumer: they change the named function only,
\* giving it the constructs or the permissions passed, and when no consumer
\* has the name they end with an error and change nothing.
NamedCallIsLocal ==
    LET call == streamCalls'[Len(streamCalls')]
    IN  Len(streamCalls') = Len(streamCalls) + 1
        /\ call.op \in {"bindToConsumer", "attachPermissionsToConsumer"}
        => /\ bindingForAllConsumers' = bindingForAllConsumers
           /\ permissionsAttachedForAllConsumers' = permissionsAttachedForAllConsumers
           /\ DOMAIN functions' = DOMAIN functions
           /\ \A name \in DOMAIN functions \ {call.consumerName} :
                functions'[name] = functions[name]
           /\ IF call.consumerName \in DOMAIN functions
              THEN /\ call.error = NoError
                   /\ functions'[call.consumerName] # functions[call.consumerName]
              ELSE /\ call.error # NoError
                   /\ functions' = functions

\* C25: the binding invariant of the consumers holds in every state and
\* every call naming a consumer is local to that consumer.
C25_BindingInvariant == []ConsumersHaveAll /\ [][NamedCallIsLocal]_vars

\* consumer1 came with the props, bind() and attachPermissions() were
\* called, and consumer2 was added afterwards.
C25_Witness ==
    /\ Len(streamCalls) = 3
    /\ streamCalls[1].op = "bind"
    /\ streamCalls[2].op = "attachPermissions"
    /\ streamCalls[3].op = "addConsumers"
    /\ streamCalls[3].consumerName = "consumer2"
    /\ DOMAIN functions = {"consumer1", "consumer2"}
    /\ Len(functions["consumer1"].bound) = 2

(***************************************************************************)
(* Properties of the Pothos builder.                                       *)
(***************************************************************************)
\* The pothos/graphql routes with a schema among the routes of the Api
\* constructs of a metadata event, in order.
RECURSIVE SchemaRoutes(_)
SchemaRoutes(properties) ==
    IF properties = <<>> THEN <<>>
    ELSE (IF Head(properties).type = "Api"
          THEN SelectSeq(Head(properties).data.routes,
                         LAMBDA r : r.type \in {"pothos", "graphql"} /\ r.schema # <<>>)
          ELSE <<>>)
         \o SchemaRoutes(Tail(properties))

MetadataEvents == {n \in 1..Len(busEvents) : busEvents[n].topic = "stacks.metadata"}
Yielding == {n \in MetadataEvents : SchemaRoutes(busEvents[n].properties) # <<>>}
FirstYielding == CHOOSE n \in Yielding : \A m \in Yielding : n <= m

\* The route list received last before event n (none: the empty list).
RoutesBefore(n) ==
    LET earlier == {m \in MetadataEvents : m < n}
    IN  IF earlier = {} THEN <<>>
        ELSE SchemaRoutes(busEvents[CHOOSE m \in earlier : \A k \in earlier : k <= m].properties)

\* A file strictly inside the directory of the schema.
Inside(schema, file) ==
    /\ Len(file) >= Len(schema)
    /\ SubSeq(file, 1, Len(schema) - 1) = SubSeq(schema, 1, Len(schema) - 1)

BuildsBy(topic) == SelectSeq(builds, LAMBDA b : b.topic = topic)

\* C26: the builds triggered by metadata events are one per route of the
\* first metadata event that yields a pothos/graphql route with a schema,
\* and none when no event yields one; `routes` is the list of the metadata
\* event received last; every build triggered by a file change is the build
\* of a route of the list received last before that event whose schema
\* directory holds the file.
C26_InitialExtractionOnce ==
    /\ IF Yielding = {}
       THEN BuildsBy("stacks.metadata") = <<>> /\ ~first
       ELSE /\ first
            /\ BuildsBy("stacks.metadata") =
                   [n \in 1..Len(SchemaRoutes(busEvents[FirstYielding].properties)) |->
                       [route |-> SchemaRoutes(busEvents[FirstYielding].properties)[n],
                        event |-> FirstYielding, topic |-> "stacks.metadata"]]
    /\ routes = RoutesBefore(Len(busEvents) + 1)
    /\ \A n \in 1..Len(builds) :
        builds[n].topic = "file.changed" =>
            /\ busEvents[builds[n].event].topic = "file.changed"
            /\ builds[n].route \in Range(RoutesBefore(builds[n].event))
            /\ Inside(builds[n].route.schema, busEvents[builds[n].event].file)
    /\ \A n \in 1..Len(busEvents) :
        busEvents[n].topic = "file.changed" /\ busEvents[n].file[Len(busEvents[n].file)] # "out.mjs" =>
            \A r \in Range(RoutesBefore(n)) :
                Inside(r.schema, busEvents[n].file) =>
                    \E k \in 1..Len(builds) : builds[k].event = n /\ builds[k].route = r

\* Two events without routes, then the event with two routes (two builds),
\* then a later event with one route: routes replaced, no further build.
C26_Witness ==
    /\ Len(busEvents) = 4
    /\ \A n \in 1..4 : busEvents[n].topic = "stacks.metadata"
    /\ Yielding = {3, 4}
    /\ Len(builds) = 2
    /\ Len(routes) = 1

(***************************************************************************)
(* Properties of setSecret's failures.                                     *)
(***************************************************************************)
\* What a successful put of the call's value leaves at the path.
Written == [Value |-> input.value,
            Tier |-> IF input.value.length > TierThreshold THEN "Advanced" ELSE "Standard"]

SsmRaised == pc = "raised" /\ err # IotFailure

\* C27 (as stated): whenever setSecret raises, the value stored at the
\* secret's path is the one stored before the call.
C27_StateUnchangedOnError ==
    pc = "raised" => store[paramName] = input.before

\* C27 (amended): when setSecret raises because the first put failed with
\* anything but the downgrade refusal, or because the recovery delete failed,
\* the path holds what it held before the call; when the retry put fails
\* after the recovery delete the path is left deleted; when the publish
\* fails the path holds the new value.
C27_ErrorOutcomes ==
    /\ SsmRaised /\ ssmCalls[1].answer # DowngradeConflict =>
        Len(ssmCalls) = 1 /\ store[paramName] = input.before
    /\ SsmRaised /\ Len(ssmCalls) = 2 =>
        ssmCalls[2].command.cmd = "DeleteParameter" /\ store[paramName] = input.before
    /\ SsmRaised /\ Len(ssmCalls) = 3 =>
        /\ ssmCalls[3].command.cmd = "PutParameter"
        /\ input.before.Tier = "Advanced"
        /\ store[paramName] = NoParam
    /\ pc = "raised" /\ err = IotFailure => store[paramName] = Written

\* The retry put failed after the recovery delete: the secret is gone.
C27_Witness ==
    /\ SsmRaised
    /\ Len(ssmCalls) = 3
    /\ ssmCalls[2].answer = Ok
    /\ input.before # NoParam
    /\ store[paramName] = NoParam

(***************************************************************************)
(* Properties of restartFunction against another writer.                   *)
(***************************************************************************)
WithoutStamp(variables) ==
    [k \in DOMAIN variables \ {SECRET_UPDATED_AT_ENV} |-> variables[k]]

\* The other writer's update was applied after caller i's get was answered
\* and before caller i's update was, with no update in between; the call of
\* caller i was served.
WrittenBetween(i, g, w, u) ==
    /\ Served(i)
    /\ g < w /\ w < u
    /\ rfLog[g].caller = i /\ rfLog[g].command.cmd = "GetFunctionConfiguration"
    /\ rfLog[w].caller = OtherWriter
    /\ rfLog[u].caller = i /\ rfLog[u].command.cmd = "UpdateFunctionConfiguration"
    /\ \A n \in (w + 1)..(u - 1) : rfLog[n].command.cmd # "UpdateFunctionConfiguration"

\* C28 (as stated): when another writer updates the variables between the
\* read and the write-back of restartFunction, the function's non-timestamp
\* variables after restartFunction completes are the other writer's.
C28_NoLostUpdate ==
    \A i \in Callers : \A g \in 1..Len(rfLog), w \in 1..Len(rfLog), u \in 1..Len(rfLog) :
        WrittenBetween(i, g, w, u) =>
            WithoutStamp(VariablesIn(rfTasks[i].left))
                = WithoutStamp(rfLog[w].command.Environment.Variables)

\* C28 (amended): when another writer updates the variables between the
\* read and the write-back of restartFunction, the function's non-timestamp
\* variables after restartFunction completes are the ones restartFunction
\* read: the write-back overwrites the other writer's change.
C28_WriteBackOverwrites ==
    \A i \in Callers : \A g \in 1..Len(rfLog), w \in 1..Len(rfLog), u \in 1..Len(rfLog) :
        WrittenBetween(i, g, w, u) =>
            WithoutStamp(VariablesIn(rfTasks[i].left))
                = WithoutStamp(VariablesIn(rfLog[g].response.Environment))

\* FOO was "bar" when read, the other writer set it to "baz", and the
\* write-back put "bar" back.
C28_Witness ==
    /\ Len(rfLog) = 3
    /\ WrittenBetween(1, 1, 2, 3)
    /\ rfLog[1].response.Environment # NoEnvironment
    /\ rfLog[1].response.Environment.Variables["FOO"] = "bar"
    /\ rfLog[2].command.Environment.Variables["FOO"] = "baz"
    /\ fnEnv.Variables["FOO"] = "bar"

(***************************************************************************)
(* Properties of the paths the secret operations write.                    *)
(***************************************************************************)
\* {prefix}Secret/{normalizedKey}/value for the call in progress.
PathOfCall ==
    (IF input.fallback THEN PREFIX_FALLBACK ELSE PREFIX_STAGE)
        \o <<"Secret", "/">> \o Underscored(input.key) \o <<"/", "value">>

Under(prefix, name) ==
    Len(name) >= Len(prefix) /\ SubSeq(name, 1, Len(prefix)) = prefix

\* C29: a step changes what the store holds at a path only when it is a
\* step of setSecret or removeSecret and the path is
\* {prefix}Secret/{normalizedKey}/value, the prefix chosen by the call's
\* fallback flag; paths under the other prefix stay as they are, and no step
\* of getSecret, secrets(), parameters() or env() changes the store.
C29_ScopeIsolation ==
    [][\A n \in Names :
          store'[n] # store[n] =>
              /\ pc \in {"put", "delete", "retry", "remove"}
              /\ n = PathOfCall
              /\ ~Under(IF input.fallback THEN PREFIX_STAGE ELSE PREFIX_FALLBACK, n)]_vars

\* A fallback secret was set while the STAGE secret of the same key holds
\* another value; then it was read.
C29_Witness ==
    /\ pc = "got"
    /\ input.fallback
    /\ input.key = <<"my", "-", "key">>
    /\ secretOut = <<Val("long", 4097)>>
    /\ store[FallbackSecret(<<"my", "_", "key">>)].Tier = "Advanced"
    /\ store[StageSecret(<<"my", "_", "key">>)].Tier = "Standard"

(***************************************************************************)
(* Properties of parse on the paths of pathFor.                            *)
(***************************************************************************)
RoundTrip ==
    \A n \in 1..Len(parseOut) :
        parseOut[n].result = [type |-> pureInput.type,
                              id |-> Underscored(pureInput.id),
                              prop |-> pureInput.prop]

NoSlash(s) == \A i \in 1..Len(s) : s[i] # "/"

\* C30 (as stated): for every type, id, prop and flag, parse of the path
\* pathFor gives, against the prefix of the flag, is
\* {type, id: normalizeID(id), prop}.
C30_PathRoundTrip == RoundTrip

\* C30 (amended): for every type and id that contain no "/", every prop
\* (with or without "/") and either flag, parse of the path pathFor gives,
\* against the prefix of the flag, is {type, id: normalizeID(id), prop}.
C30_PathRoundTripSlashFreeId ==
    NoSlash(pureInput.type) /\ NoSlash(pureInput.id) => RoundTrip

\* A prop with "/" and an id with dashes went through pathFor and parse
\* with both flags.
C30_Witness ==
    /\ pureInput.id = <<"my", "-", "secret", "-", "key">>
    /\ pureInput.prop = <<"b", "/", "value">>
    /\ Len(parseOut) = 2
    /\ parseOut[1].fallback /\ ~parseOut[2].fallback
    /\ parseOut[1].result.id = <<"my", "_", "secret", "_", "key">>
    /\ parseOut[2].result.prop = <<"b", "/", "value">>

====
